---------------------------- MODULE Spec2Model ----------------------------
(***************************************************************************)
(* github-mcp-server: the protocol dispatcher (src/mcp), the workflow      *)
(* engine and git adapter (src/github/workflows.rs), the HTTP and          *)
(* WebSocket transports and the per-address rate limiter (src/security).   *)
(*                                                                         *)
(* Values are strings or records of strings, so that any two of them can   *)
(* be compared.  None is Rust's Option::None.                              *)
(***************************************************************************)
EXTENDS Integers, Sequences, FiniteSets, TLC

None == "<none>"
\* Option::None where Some holds a record.
Nil == [nil |-> TRUE]

(* ------------------------------ bounds -------------------------------- *)
\* Text messages taken from one WebSocket connection.
MaxMsgs == 3
\* Requests that pass through the rate limiting layer.
MaxCalls == 4
\* Replenish intervals (60s / requests_per_minute) that elapse.
MaxTicks == 1
\* requests_per_minute given to RateLimitingLayer::new (60 in
\* rate_limiting_layer(); the layer takes any value).
RequestsPerMinute == 2
\* Requests in the rate limiting layer at the same time.
MaxRequests == 3
\* Workflow commands that run at the same time.
MaxCommands == 2

(* ------------------------- JSON values (serde_json::Value) ------------ *)
JAbsent == [t |-> "absent", v |-> ""]
JNull   == [t |-> "null", v |-> ""]
JNum    == [t |-> "num", v |-> "42"]
JStr(s) == [t |-> "str", v |-> s]
JBool(b) == [t |-> "bool", v |-> IF b THEN "true" ELSE "false"]

\* Value::as_str / Value::as_bool after Value::get: Some only for that type.
AsStr(j)  == IF j.t = "str" THEN j.v ELSE None
AsBool(j) == IF j.t = "bool" THEN j.v ELSE None

\* serde: Option<String> / Option<bool> from json!(Option<&Value>):
\* an absent key or null is None, the right type is Some, any other type
\* is a serde_json::Error.
DeOptString(j) ==
    CASE j.t \in {"absent", "null"} -> [ok |-> TRUE, v |-> None]
      [] j.t = "str" -> [ok |-> TRUE, v |-> j.v]
      [] OTHER -> [ok |-> FALSE, v |-> None]
DeOptBool(j) ==
    CASE j.t \in {"absent", "null"} -> [ok |-> TRUE, v |-> None]
      [] j.t = "bool" -> [ok |-> TRUE, v |-> j.v]
      [] OTHER -> [ok |-> FALSE, v |-> None]

\* format!("prefix{}", detail)
Msg(prefix, detail) == prefix \o detail

(* ------------------------- error.rs: AppError ------------------------- *)
AppErr(variant, msg) == [variant |-> variant, msg |-> msg]
Ok(v)  == [ok |-> TRUE, v |-> v]
Err(e) == [ok |-> FALSE, e |-> e]

\* thiserror Display: the #[error("...")] prefix of the variant, then {0}.
ErrorPrefix(variant) ==
    CASE variant = "Json" -> "JSON serialization error: "
      [] variant = "McpProtocol" -> "MCP protocol error: "
      [] variant = "Authentication" -> "Authentication error: "
      [] variant = "Validation" -> "Validation error: "
      [] variant = "GitHubApi" -> "GitHub API error: "
      [] OTHER -> "Internal server error: "
Display(e) == ErrorPrefix(e.variant) \o e.msg

\* AppError::into_response: the (status, error label) table.
StatusOf(variant) ==
    CASE variant = "Json" -> 400
      [] variant = "McpProtocol" -> 400
      [] variant = "Authentication" -> 401
      [] variant = "Validation" -> 400
      [] variant = "GitHubApi" -> 502
      [] OTHER -> 500
LabelOf(variant) ==
    CASE variant = "Json" -> "Invalid JSON"
      [] variant = "McpProtocol" -> "MCP protocol error"
      [] variant = "Authentication" -> "Authentication failed"
      [] variant = "Validation" -> "Validation error"
      [] variant = "GitHubApi" -> "GitHub API error"
      [] OTHER -> "Internal server error"

(* ------------------------- protocol.rs -------------------------------- *)
PARSE_ERROR      == -32700
METHOD_NOT_FOUND == -32601
INVALID_PARAMS   == -32602
INTERNAL_ERROR   == -32603
INVALID_REQUEST  == -32600
GITHUB_API_ERROR     == -32000
AUTHENTICATION_ERROR == -32001
RATE_LIMIT_ERROR     == -32002
WORKFLOW_ERROR       == -32003

INITIALIZE        == "initialize"
TOOLS_LIST        == "tools/list"
TOOLS_CALL        == "tools/call"
RESOURCES_LIST    == "resources/list"
RESOURCES_READ    == "resources/read"
GITHUB_PUSH       == "github/push"
GITHUB_SCAN_TASKS == "github/scan-tasks"
GITHUB_MERGE      == "github/merge"

\* McpResponse::success / McpResponse::error.
McpError(code, message) == [code |-> code, message |-> message]
McpSuccess(id, result) ==
    [jsonrpc |-> "2.0", id |-> id, result |-> result, error |-> Nil]
\* Variant that fills both fields, for the sensitivity of C4.
McpErrorResponseWithResult(id, code, message) ==
    [jsonrpc |-> "2.0", id |-> id, result |-> [status |-> "error"],
     error |-> McpError(code, message)]
McpErrorResponse(id, code, message) ==
    [jsonrpc |-> "2.0", id |-> id, result |-> Nil,
     error |-> McpError(code, message)]

\* Serialize for McpResponse: id always written (None as null); result and
\* error skipped when None (skip_serializing_if = "Option::is_none").  A
\* JSON object is [keys, id, result, error]: the keys it has and their values.
SerializeResponse(r) ==
    [keys |-> {"jsonrpc", "id"}
                \cup (IF r.result = Nil THEN {} ELSE {"result"})
                \cup (IF r.error = Nil THEN {} ELSE {"error"}),
     id |-> IF r.id = Nil THEN JNull ELSE r.id,
     result |-> r.result,
     error |-> r.error]


(* ------------------------- workflows.rs: git adapter ------------------ *)
(* The working tree and its surroundings, w:                               *)
(*   checked_out  what `git branch --show-current` prints                  *)
(*   remote_head  what `git remote show origin` does: "spawn_failed",      *)
(*                "exit_nonzero", "no_head_line", or what follows the     *)
(*                colon on its "HEAD branch:" line                         *)
(*   dirty        whether `git status --porcelain` prints any line         *)
(*   todo         TODO.md: [readable, lines]                               *)
(*   env_project  GITHUB_PROJECT_NUMBER, or None                           *)
(*   pull_request the number of the open pull request of the feature       *)
(*                branch on GitHub, or None                                *)
(* What goes wrong during one command, env:                                *)
(*   fail      the adapter operation whose git process exits non-zero or   *)
(*             cannot be spawned ("none": every process succeeds)          *)
(*   residual  whether changes remain outside `git add .` after a commit   *)
(* A step threads c = [trace, dirty, checked_out, cmd]: the operations     *)
(* invoked so far, the tree's state and the command being executed.        *)
\* The operations invoked so far, each with its argument and how it ended:
\* "<err>" for an Err, else the value returned ("ok" for unit).
Failed == "<err>"
Call(c, op, arg, r, ret) ==
    [c |-> [c EXCEPT !.trace = Append(@, [op |-> op, arg |-> arg,
                                          ret |-> IF r.ok THEN ret ELSE Failed])],
     r |-> r]
Internal(msg) == Err(AppErr("Internal", msg))

get_current_branch(w, env, c) ==
    Call(c, "get_current_branch", "",
         IF env.fail = "current_branch" THEN Internal("Git command failed")
         ELSE Ok(w.checked_out),
         w.checked_out)

\* line.split(':').nth(1) of the HEAD-branch line, then str::trim
TrimName(s) == IF s = " trunk" THEN "trunk" ELSE s

\* Variant that answers the default when git cannot be run, for the
\* sensitivity of C39.
get_main_branch_defaulting(w, env, c) ==
    LET r == CASE w.remote_head = "spawn_failed" -> Ok("main")
               [] w.remote_head = "exit_nonzero" -> Ok("main")
               [] w.remote_head = "no_head_line" -> Ok("main")
               [] OTHER -> Ok(TrimName(w.remote_head))
    IN  Call(c, "get_main_branch", "", r, IF r.ok THEN r.v ELSE Failed)
get_main_branch(w, env, c) ==
    LET r == CASE w.remote_head = "spawn_failed" ->
                    Internal(Msg("Failed to get main branch: ", "io"))
               [] w.remote_head = "exit_nonzero" -> Ok("main")
               [] w.remote_head = "no_head_line" -> Ok("main")
               [] OTHER -> Ok(TrimName(w.remote_head))
    IN  Call(c, "get_main_branch", "", r, IF r.ok THEN r.v ELSE Failed)

\* Variant that never lists a change, for the sensitivity of C19.
StatusLinesNone(dirty) == <<>>
StatusLines(dirty) == IF dirty THEN <<" M src/lib.rs">> ELSE <<>>

get_git_status(w, env, c) ==
    Call(c, "get_git_status", "",
         IF env.fail = "status" THEN Internal("Git status command failed")
         ELSE Ok(StatusLines(c.dirty)),
         IF c.dirty THEN "dirty" ELSE "clean")

\* git add . then git commit -m message.  `git commit` exits non-zero when
\* nothing is staged, so a commit on a clean tree fails.
commit_changes(w, env, c, message) ==
    IF env.fail = "add"
      THEN Call(c, "commit_changes", message, Internal("Git add command failed"), "")
    ELSE IF env.fail = "commit" \/ ~c.dirty
      THEN Call(c, "commit_changes", message, Internal("Git commit command failed"), "")
    ELSE Call([c EXCEPT !.dirty = env.residual], "commit_changes", message,
              Ok("unit"), "ok")

\* Variant that tries a failed push once more, for the sensitivity of C20.
push_branch_retry(w, env, c, branch) ==
    IF env.fail = "push"
      THEN Call(Call(c, "push_branch", branch,
                     Internal(Msg("Git push failed: ", "stderr")), "").c,
                "push_branch", branch,
                Internal(Msg("Git push failed: ", "stderr")), "")
    ELSE Call(c, "push_branch", branch, Ok("unit"), "ok")
push_branch(w, env, c, branch) ==
    Call(c, "push_branch", branch,
         IF env.fail = "push" THEN Internal(Msg("Git push failed: ", "stderr"))
         ELSE Ok("unit"),
         "ok")

pull_branch(w, env, c, branch) ==
    Call(c, "pull_branch", branch,
         IF env.fail = "pull" THEN Internal(Msg("Git pull failed: ", "stderr"))
         ELSE Ok("unit"),
         "ok")

checkout_branch(w, env, c, branch) ==
    IF env.fail = "checkout"
      THEN Call(c, "checkout_branch", branch,
                Internal(Msg("Git checkout failed: ", "stderr")), "")
    ELSE Call([c EXCEPT !.checked_out = branch], "checkout_branch", branch,
              Ok("unit"), "ok")

\* A non-zero exit is only warned about; a process that cannot be spawned
\* is an error (map_err ... ?).
delete_local_branch(w, env, c, branch) ==
    Call(c, "delete_local_branch", branch,
         IF env.fail = "delete_spawn"
           THEN Internal(Msg("Failed to delete branch: ", "io"))
         ELSE Ok("unit"),
         IF env.fail = "delete_nonzero" THEN "warned" ELSE "ok")

\* unwrap_or_else(|_| "main".to_string())
UnwrapOrMain(r) == IF r.ok THEN r.v ELSE "main"

(* ------------------------- api.rs / workflows.rs: GitHub -------------- *)
\* Variant that has a token for everyone, for the sensitivity of C34.
get_github_client_for_all(user_id, c) ==
    Call(c, "get_github_client", user_id, Ok("client"), "ok")
\* get_github_client(state, user_id): without a user id there is no token.
get_github_client(user_id, c) ==
    Call(c, "get_github_client", user_id,
         IF user_id = None
           THEN Err(AppErr("Authentication", "No GitHub token available"))
         ELSE Ok("client"),
         "ok")

\* get_pr_for_branch: not implemented, always an error.
get_pr_for_branch(c, branch) ==
    Call(c, "get_pr_for_branch", branch,
         Internal("PR lookup not implemented yet"), "")

\* GitHubClient::get_project_items: the parsed item list is always empty.
get_project_items(env, c, project) ==
    Call(c, "get_project_items", project,
         IF env.fail = "project_items"
           THEN Err(AppErr("GitHubApi", Msg("Failed to get project items: ", "502")))
         ELSE Ok(<<>>),
         "ok")

(* ------------------------- workflows.rs: the three commands ----------- *)
Ctx0(w) ==
    [trace |-> <<>>, dirty |-> w.dirty, checked_out |-> w.checked_out, cmd |-> Nil]
Unit(c) == [c |-> c, r |-> Ok("unit")]
Return(c, r) == [c |-> c, r |-> r]

\* Variant that asks git whatever the argument, for the sensitivity of C33.
branch_or_current_asking(w, env, c, branch) == get_current_branch(w, env, c)
\* branch.unwrap_or_else(|| get_current_branch()..) (push: line 70, merge:
\* line 192): the closure runs only without a branch argument.
branch_or_current(w, env, c, branch) ==
    IF branch # None THEN Return(c, Ok(branch)) ELSE get_current_branch(w, env, c)

\* if current_branch == main_branch (push: line 74, merge: line 195)
\* Variants that compare with the literal name, for the sensitivity of C1, C2.
PushOnMainLiteral(current_branch, main_branch) == current_branch = "main"
PushOnMain(current_branch, main_branch) == current_branch = main_branch
MergeOnMainLiteral(current_branch, main_branch) == current_branch = "main"
MergeOnMain(current_branch, main_branch) == current_branch = main_branch

\* Variant that names no branch and suggests nothing, for the sensitivity of C15.
PushedPayloadBare(current_branch) ==
    [status |-> "success", message |-> "Pushed", branch |-> "", suggestion |-> ""]
PushedPayload(current_branch) ==
    [status |-> "success",
     message |-> Msg("Pushed to feature branch: ", current_branch),
     branch |-> current_branch,
     suggestion |-> "Consider creating a pull request for this branch"]

execute_push_workflow(w, env, branch, message, ready_for_review) ==
    LET s1 == branch_or_current(w, env, Ctx0(w), branch)
        current_branch == UnwrapOrMain(s1.r)
        s2 == get_main_branch(w, env, s1.c)
        main_branch == UnwrapOrMain(s2.r)
        s3 == IF message # None THEN commit_changes(w, env, s2.c, message)
              ELSE Unit(s2.c)
        s4 == get_git_status(w, env, s3.c)
        s5 == push_branch(w, env, s4.c, current_branch)
        s6 == get_github_client(None, s5.c)
        s7 == get_pr_for_branch(s6.c, current_branch)
    IN  IF PushOnMain(current_branch, main_branch)
          THEN Return(s2.c, Ok([status |-> "warning",
                                message |-> Msg("You're on main branch", main_branch),
                                branch |-> current_branch,
                                requires_confirmation |-> "true"]))
        ELSE IF ~s3.r.ok THEN Return(s3.c, s3.r)
        ELSE IF ~s4.r.ok THEN Return(s4.c, s4.r)
        ELSE IF s4.r.v # <<>>
          THEN Return(s4.c, Ok([status |-> "error",
                                message |-> Msg("Uncommitted changes detected", ""),
                                uncommitted_changes |-> s4.r.v]))
        ELSE IF ~s5.r.ok THEN Return(s5.c, s5.r)
        ELSE IF ~s6.r.ok THEN Return(s6.c, Ok(PushedPayload(current_branch)))
        ELSE IF ~s7.r.ok THEN Return(s7.c, Ok(PushedPayload(current_branch)))
        ELSE Return(s7.c, Ok(
               [status |-> "success",
                message |-> IF ready_for_review = "true" /\ s7.r.v.draft = "true"
                              THEN Msg("Pushed and marked PR as ready for review!", "")
                            ELSE Msg("Pushed to feature branch: ", current_branch),
                branch |-> current_branch,
                pull_request |-> s7.r.v,
                ready_for_review |->
                    IF ready_for_review = "true" /\ s7.r.v.draft = "true"
                      THEN "true" ELSE None]))

\* char::is_ascii_digit on every char of a word.
AsciiDigitWords == {"0", "7", "12"}
\* Variant that takes the last word of digits, for the sensitivity of C29.
extract_number_from_line_last(line) ==
    LET hits == {i \in 1..Len(line.words) : line.words[i] \in AsciiDigitWords}
    IN  IF hits = {} THEN None
        ELSE line.words[CHOOSE i \in hits : \A j \in hits : i >= j]
extract_number_from_line(line) ==
    LET hits == {i \in 1..Len(line.words) : line.words[i] \in AsciiDigitWords}
    IN  IF hits = {} THEN None
        ELSE line.words[CHOOSE i \in hits : \A j \in hits : i <= j]

\* A line of TODO.md is [marker, words]: the marker text it contains ("" for
\* neither) and its whitespace-separated words.
\* The trace records the read of TODO.md and, when it is reached, the read
\* of GITHUB_PROJECT_NUMBER.
\* Variant that falls back to project 1, for the sensitivity of C14.
detect_project_number_or_first(w, c) ==
    Call(Call(c, "read_to_string", "TODO.md", Ok("text"), "ok").c,
         "env_var", "GITHUB_PROJECT_NUMBER", Ok("1"), "1")
detect_project_number(w, c) ==
    LET lines == IF w.todo.readable THEN w.todo.lines ELSE <<>>
        hits == {i \in 1..Len(lines) :
                    /\ lines[i].marker \in {"Project Number:", "GitHub Project:"}
                    /\ extract_number_from_line(lines[i]) # None}
        c1 == Call(c, "read_to_string", "TODO.md",
                   IF w.todo.readable THEN Ok("text") ELSE Internal("io"), "ok").c
        found == IF w.env_project # None THEN Ok(w.env_project)
                 ELSE Err(AppErr("Validation",
                                 "No GitHub Project number found. Please specify project_number or add it to TODO.md"))
    IN  IF hits # {}
          THEN Return(c1, Ok(extract_number_from_line(
                    lines[CHOOSE i \in hits : \A j \in hits : i <= j])))
        ELSE Call(c1, "env_var", "GITHUB_PROJECT_NUMBER", found, w.env_project)

organize_tasks_by_priority(tasks) ==
    [critical |-> <<>>, high |-> <<>>, medium |-> <<>>, low |-> <<>>,
     total |-> Len(tasks)]

\* execute_scan_tasks_workflow, lines 148-153: the argument when there is
\* one, else detect_project_number.
project_num(w, c, project_number) ==
    IF project_number # None THEN Return(c, Ok(project_number))
    ELSE detect_project_number(w, c)

execute_scan_tasks_workflow(w, env, project_number, filter_type, status) ==
    LET s1 == project_num(w, Ctx0(w), project_number)
        s2 == get_github_client(None, s1.c)
        s3 == get_project_items(env, s2.c, s1.r.v)
    IN  IF ~s1.r.ok THEN Return(s1.c, s1.r)
        ELSE IF ~s2.r.ok
          THEN Return(s2.c, Err(AppErr("Authentication",
                                       "GitHub client not available")))
        ELSE IF ~s3.r.ok THEN Return(s3.c, s3.r)
        ELSE Return(s3.c, Ok([status |-> "success",
                              project_number |-> s1.r.v,
                              tasks |-> organize_tasks_by_priority(s3.r.v),
                              message |-> Msg("GitHub Project Tasks Available", "")]))

\* Variant that pushes before it looks at the tree and never commits, for
\* the sensitivity of C23.
merge_pushed_push_first(w, env, branch) ==
    LET s1 == IF branch # None THEN Return(Ctx0(w), Ok(branch))
              ELSE get_current_branch(w, env, Ctx0(w))
        s2 == get_main_branch(w, env, s1.c)
        s5 == push_branch(w, env, s2.c, UnwrapOrMain(s1.r))
        s3 == get_git_status(w, env, s5.c)
    IN  [c |-> IF s5.r.ok THEN s3.c ELSE s5.c,
         r |-> IF s5.r.ok THEN s3.r ELSE s5.r,
         current_branch |-> UnwrapOrMain(s1.r),
         main_branch |-> UnwrapOrMain(s2.r)]
\* execute_merge_workflow, lines 192-207: resolve the branches, refuse the
\* main branch, commit a dirty tree and push.
merge_pushed(w, env, branch) ==
    LET s1 == branch_or_current(w, env, Ctx0(w), branch)
        current_branch == UnwrapOrMain(s1.r)
        s2 == get_main_branch(w, env, s1.c)
        main_branch == UnwrapOrMain(s2.r)
        s3 == get_git_status(w, env, s2.c)
        s4 == IF s3.r.v # <<>>
                THEN commit_changes(w, env, s3.c,
                                    Msg("Final changes for ", current_branch))
              ELSE Unit(s3.c)
        s5 == push_branch(w, env, s4.c, current_branch)
        done(s) == [c |-> s.c, r |-> s.r, current_branch |-> current_branch,
                    main_branch |-> main_branch]
    IN  IF MergeOnMain(current_branch, main_branch)
          THEN done(Return(s2.c, Err(AppErr("Validation",
                                            Msg("Already on main branch. Switch to feature branch first.", "")))))
        ELSE IF ~s3.r.ok THEN done(s3)
        ELSE IF ~s4.r.ok THEN done(s4)
        ELSE done(s5)

\* execute_merge_workflow, lines 213-251, with the pull request pr
\* (GitHubPullRequest) in hand: the checks and the merge are log lines only;
\* checkout and pull of the main branch, the clean-up, the payload.
merge_located(w, env, c, pr, current_branch, main_branch, delete_branch, cleanup_work_folder) ==
    LET s8 == checkout_branch(w, env, c, main_branch)
        s9 == pull_branch(w, env, s8.c, main_branch)
        work_folder_cleaned == IF cleanup_work_folder = "true" THEN "true" ELSE "false"
        s10 == IF delete_branch \in {None, "true"}
                 THEN delete_local_branch(w, env, s9.c, current_branch)
               ELSE Unit(s9.c)
        branch_deleted == IF delete_branch \in {None, "true"} THEN "true" ELSE "false"
    IN  IF ~s8.r.ok THEN Return(s8.c, s8.r)
        ELSE IF ~s9.r.ok THEN Return(s9.c, s9.r)
        ELSE IF ~s10.r.ok THEN Return(s10.c, s10.r)
        ELSE Return(s10.c, Ok([status |-> "success",
                               message |-> Msg("Production deployment complete!", ""),
                               merged_pr |-> [number |-> pr.number,
                                              url |-> pr.html_url,
                                              title |-> pr.title],
                               current_branch |-> main_branch,
                               branch_deleted |-> branch_deleted,
                               work_folder_cleaned |-> work_folder_cleaned]))

\* execute_merge_workflow, lines 209-211 and 252-254, after the push.
merge_after_push(w, env, h, delete_branch, cleanup_work_folder) ==
    LET s6 == get_github_client(None, h.c)
        s7 == get_pr_for_branch(s6.c, h.current_branch)
    IN  IF ~h.r.ok THEN Return(h.c, h.r)
        ELSE IF ~s6.r.ok
          THEN Return(s6.c, Err(AppErr("Authentication",
                                       "GitHub client not available")))
        ELSE IF ~s7.r.ok THEN Return(s7.c, s7.r)
        ELSE merge_located(w, env, s7.c, s7.r.v, h.current_branch, h.main_branch,
                           delete_branch, cleanup_work_folder)

\* Variant that carries on without a pull request, for the sensitivity of C21.
execute_merge_workflow_without_pr(w, env, branch, delete_branch, cleanup_work_folder) ==
    IF ~merge_pushed(w, env, branch).r.ok
      THEN Return(merge_pushed(w, env, branch).c, merge_pushed(w, env, branch).r)
    ELSE merge_located(w, env,
                       get_github_client(None, merge_pushed(w, env, branch).c).c,
                       [number |-> None, html_url |-> None, title |-> None],
                       merge_pushed(w, env, branch).current_branch,
                       merge_pushed(w, env, branch).main_branch,
                       delete_branch, cleanup_work_folder)
execute_merge_workflow(w, env, branch, delete_branch, cleanup_work_folder) ==
    merge_after_push(w, env, merge_pushed(w, env, branch), delete_branch,
                     cleanup_work_folder)

\* GitHubCommand: [tag, a, b, c] with the variant's three optional fields.
\* The context remembers which command ran.
Executed(command, out) == Return([out.c EXCEPT !.cmd = command], out.r)
execute_command(w, env, command) ==
    Executed(command,
        CASE command.tag = "Push" ->
               execute_push_workflow(w, env, command.a, command.b, command.c)
          [] command.tag = "ScanTasks" ->
               execute_scan_tasks_workflow(w, env, command.a, command.b, command.c)
          [] command.tag = "Merge" ->
               execute_merge_workflow(w, env, command.a, command.b, command.c))

\* Variant that commits what it finds, for the sensitivity of C32.
get_status_committing(w, env) ==
    commit_changes(w, env, get_git_status(w, env, Ctx0(w)).c, "status")
\* get_status: get_pr_for_branch(..).ok() and a missing client both give
\* pull_request: null.
get_status(w, env) ==
    LET s1 == get_current_branch(w, env, Ctx0(w))
        s2 == get_git_status(w, env, s1.c)
        s3 == get_github_client(None, s2.c)
        s4 == get_pr_for_branch(s3.c, s1.r.v)
        payload(pr) == [current_branch |-> s1.r.v,
                        has_uncommitted_changes |-> IF s2.r.v # <<>> THEN "true" ELSE "false",
                        git_status |-> s2.r.v,
                        pull_request |-> pr]
    IN  IF ~s1.r.ok THEN Return(s1.c, s1.r)
        ELSE IF ~s2.r.ok THEN Return(s2.c, s2.r)
        ELSE IF ~s3.r.ok THEN Return(s3.c, Ok(payload(Nil)))
        ELSE IF ~s4.r.ok THEN Return(s4.c, Ok(payload(Nil)))
        ELSE Return(s4.c, Ok(payload(s4.r.v)))

get_tasks(w, env) ==
    LET s1 == detect_project_number(w, Ctx0(w))
        s2 == get_github_client(None, s1.c)
        s3 == get_project_items(env, s2.c, s1.r.v)
    IN  IF ~s1.r.ok THEN Return(s1.c, s1.r)
        ELSE IF ~s2.r.ok
          THEN Return(s2.c, Err(AppErr("Authentication",
                                       "GitHub client not available")))
        ELSE IF ~s3.r.ok THEN Return(s3.c, s3.r)
        ELSE Return(s3.c, Ok([project_number |-> s1.r.v,
                              tasks |-> s3.r.v,
                              total_count |-> Len(s3.r.v)]))

(* ------------------------- handlers.rs: the dispatcher ---------------- *)
(* A request is [jsonrpc, id, method, params]: id is Nil (Option::None) or *)
(* a JSON value, params is Nil or an object                                *)
(*   [name, uri, arguments, top]                                           *)
(* where arguments is Nil (no such key) or an object of the tool fields    *)
(* and top holds the tool fields found directly in params.                 *)
ArgFields == {"branch", "message", "ready_for_review", "project_number",
              "filter_type", "status", "delete_branch", "cleanup_work_folder"}
EmptyObject == [f \in ArgFields |-> JAbsent]

Quiet(w, r) == Return(Ctx0(w), r)

handle_initialize(w, request) ==
    Quiet(w, Ok(McpSuccess(request.id,
                           [protocolVersion |-> "2024-11-05",
                            serverInfo |-> "github-mcp-server"])))

\* Variant that lists a tool the call handler has no arm for, for the
\* sensitivity of C38.
ToolNamesWithDeploy ==
    <<"github_push", "github_scan_tasks", "github_merge", "github_deploy">>
ToolNames == <<"github_push", "github_scan_tasks", "github_merge">>
handle_tools_list(w, request) ==
    Quiet(w, Ok(McpSuccess(request.id, [tools |-> ToolNames])))

ResourceUris == <<"github://workflow/status", "github://projects/tasks">>
handle_resources_list(w, request) ==
    Quiet(w, Ok(McpSuccess(request.id, [resources |-> ResourceUris])))

\* serde_json::from_value::<GitHubCommand>(json!({tag: {...}})) from the
\* three deserialized fields of the variant.
FromValue(tag, a, b, c) ==
    IF a.ok /\ b.ok /\ c.ok
      THEN Ok([tag |-> tag, a |-> a.v, b |-> b.v, c |-> c.v])
    ELSE Err(AppErr("Json", "invalid type"))

\* Variant that answers a payload whose status is not success with a
\* protocol error, for the sensitivity of C36.
RespondByStatus(request, run) ==
    IF ~run.r.ok THEN Return(run.c, run.r)
    ELSE IF run.r.v.status = "success"
      THEN Return(run.c, Ok(McpSuccess(request.id, run.r.v)))
    ELSE Return(run.c, Ok(McpErrorResponse(request.id, WORKFLOW_ERROR,
                                            run.r.v.status)))
\* The workflow result under `?`, wrapped by McpResponse::success.
Respond(request, run) ==
    IF run.r.ok THEN Return(run.c, Ok(McpSuccess(request.id, run.r.v)))
    ELSE Return(run.c, run.r)

\* Variant that answers INVALID_PARAMS, for the sensitivity of C11.
UnknownToolInvalidParams(request, tool_name) ==
    McpErrorResponse(request.id, INVALID_PARAMS, Msg("Unknown tool: ", tool_name))
\* handle_tools_call: the _ arm
UnknownTool(request, tool_name) ==
    McpErrorResponse(request.id, METHOD_NOT_FOUND, Msg("Unknown tool: ", tool_name))

handle_tools_call(w, env, request) ==
    LET params == request.params
        tool_name == AsStr(params.name)
        arguments == IF params.arguments = Nil THEN EmptyObject
                     ELSE params.arguments
        command ==
            CASE tool_name = "github_push" ->
                   FromValue("Push", DeOptString(arguments["branch"]),
                             DeOptString(arguments["message"]),
                             DeOptBool(arguments["ready_for_review"]))
              [] tool_name = "github_scan_tasks" ->
                   FromValue("ScanTasks", DeOptString(arguments["project_number"]),
                             DeOptString(arguments["filter_type"]),
                             DeOptString(arguments["status"]))
              [] tool_name = "github_merge" ->
                   FromValue("Merge", DeOptString(arguments["branch"]),
                             DeOptBool(arguments["delete_branch"]),
                             DeOptBool(arguments["cleanup_work_folder"]))
    IN  IF params = Nil
          THEN Quiet(w, Err(AppErr("McpProtocol", "Missing parameters for tools/call")))
        ELSE IF tool_name = None
          THEN Quiet(w, Err(AppErr("McpProtocol", "Missing tool name")))
        ELSE IF tool_name \notin {"github_push", "github_scan_tasks", "github_merge"}
          THEN Quiet(w, Ok(UnknownTool(request, tool_name)))
        ELSE IF ~command.ok THEN Quiet(w, command)
        ELSE Respond(request, execute_command(w, env, command.v))

\* Variant that reads the status for any other uri, for the sensitivity of C13.
UnknownResourceAsStatus(w, env, request, uri) ==
    Respond(request, get_status(w, env))
\* handle_resources_read: the _ arm
UnknownResource(w, env, request, uri) ==
    Quiet(w, Ok(McpErrorResponse(request.id, METHOD_NOT_FOUND,
                                 Msg("Unknown resource: ", uri))))

handle_resources_read(w, env, request) ==
    LET params == request.params
        uri == AsStr(params.uri)
        wrap(run) ==
            IF run.r.ok
              THEN Return(run.c, Ok(McpSuccess(request.id,
                                               [contents |-> [uri |-> uri,
                                                              text |-> run.r.v]])))
            ELSE Return(run.c, run.r)
    IN  IF params = Nil
          THEN Quiet(w, Err(AppErr("McpProtocol", "Missing parameters for resources/read")))
        ELSE IF uri = None
          THEN Quiet(w, Err(AppErr("McpProtocol", "Missing URI for resources/read")))
        ELSE IF uri = "github://workflow/status" THEN wrap(get_status(w, env))
        ELSE IF uri = "github://projects/tasks" THEN wrap(get_tasks(w, env))
        ELSE UnknownResource(w, env, request, uri)

\* request.params.as_ref().unwrap_or(&json!({})), then get(..).and_then(as_*)
TopFields(request) ==
    IF request.params = Nil THEN EmptyObject ELSE request.params.top

handle_github_push(w, env, request) ==
    LET params == TopFields(request) IN
    Respond(request, execute_command(w, env,
        [tag |-> "Push", a |-> AsStr(params["branch"]),
         b |-> AsStr(params["message"]),
         c |-> AsBool(params["ready_for_review"])]))

handle_github_scan_tasks(w, env, request) ==
    LET params == TopFields(request) IN
    Respond(request, execute_command(w, env,
        [tag |-> "ScanTasks", a |-> AsStr(params["project_number"]),
         b |-> AsStr(params["filter_type"]),
         c |-> AsStr(params["status"])]))

\* Variant that never reads delete_branch, for the sensitivity of C35.
handle_github_merge_keeping(w, env, request) ==
    Respond(request, execute_command(w, env,
        [tag |-> "Merge", a |-> AsStr(TopFields(request)["branch"]),
         b |-> None,
         c |-> AsBool(TopFields(request)["cleanup_work_folder"])]))
handle_github_merge(w, env, request) ==
    LET params == TopFields(request) IN
    Respond(request, execute_command(w, env,
        [tag |-> "Merge", a |-> AsStr(params["branch"]),
         b |-> AsBool(params["delete_branch"]),
         c |-> AsBool(params["cleanup_work_folder"])]))

\* Variant that drops the id, for the sensitivity of C5.
MethodNotFoundNoId(request) ==
    McpErrorResponse(Nil, METHOD_NOT_FOUND,
                     Msg("Method not found: ", request.method))
MethodNotFound(request) ==
    McpErrorResponse(request.id, METHOD_NOT_FOUND,
                     Msg("Method not found: ", request.method))

\* handle_request: route on the method, `?` on the handler's result, then
\* serde_json::to_value(response).
ToValue(h) ==
    IF h.r.ok THEN Return(h.c, Ok(SerializeResponse(h.r.v)))
    ELSE Return(h.c, h.r)
handle_request(w, env, request) ==
    LET m == request.method IN
    ToValue(CASE m = INITIALIZE -> handle_initialize(w, request)
              [] m = TOOLS_LIST -> handle_tools_list(w, request)
              [] m = TOOLS_CALL -> handle_tools_call(w, env, request)
              [] m = RESOURCES_LIST -> handle_resources_list(w, request)
              [] m = RESOURCES_READ -> handle_resources_read(w, env, request)
              [] m = GITHUB_PUSH -> handle_github_push(w, env, request)
              [] m = GITHUB_SCAN_TASKS -> handle_github_scan_tasks(w, env, request)
              [] m = GITHUB_MERGE -> handle_github_merge(w, env, request)
              [] OTHER -> Quiet(w, Ok(MethodNotFound(request))))

(* ------------------------- the transports ----------------------------- *)
(* A message body is [syntax, jsonrpc, id, method, params]: syntax is      *)
(* "object" for a JSON object and "garbage" for anything else; jsonrpc, id *)
(* and method are JSON values; params is Nil (absent or null) or an object.*)

\* Deserialize for McpRequest: jsonrpc and method are String, id and params
\* are Option<Value> (absent and null both None).
ParseRequest(text) ==
    IF text.syntax # "object" \/ text.jsonrpc.t # "str" \/ text.method.t # "str"
      THEN Err(AppErr("Json", "parse"))
    ELSE Ok([jsonrpc |-> text.jsonrpc.v,
             id |-> IF text.id.t \in {"absent", "null"} THEN Nil ELSE text.id,
             method |-> text.method.v,
             params |-> text.params])

NoBody == [keys |-> {}, id |-> Nil, result |-> Nil, error |-> Nil]

\* AppError::into_response: (status, Json({error, message, timestamp})).
into_response(e) ==
    [status |-> StatusOf(e.variant),
     body |-> [keys |-> {"error", "message", "timestamp"},
               id |-> Nil,
               result |-> Nil,
               error |-> [label |-> LabelOf(e.variant), message |-> Display(e)]]]

\* POST /mcp: the Json<McpRequest> extractor rejects a body that does not
\* deserialize before the handler runs; then handle_request, and
\* IntoResponse for Result<Json<Value>, AppError>.
HttpReply(request, h) ==
    [c |-> h.c, request |-> request, dispatched |-> TRUE,
     break_on_send_error |-> FALSE,
     response |-> IF h.r.ok THEN [status |-> 200, body |-> h.r.v]
                  ELSE into_response(h.r.e)]
handle_mcp_request(w, env, text) ==
    LET parsed == ParseRequest(text)
    IN  IF ~parsed.ok
          THEN [c |-> Ctx0(w), request |-> Nil, dispatched |-> FALSE,
                break_on_send_error |-> FALSE,
                response |-> [status |-> 422, body |-> NoBody]]
        ELSE HttpReply(parsed.v, handle_request(w, env, parsed.v))

\* handle_websocket, one Message::Text: the frame to send and whether a
\* failed send breaks the loop.
\* match handle_request(..): Ok(response) is sent and a failed send breaks;
\* Err(e) is sent as an INTERNAL_ERROR response and the send's result dropped.
WsReply(request, h) ==
    IF h.r.ok
      THEN [c |-> h.c, request |-> request, dispatched |-> TRUE,
            break_on_send_error |-> TRUE,
            response |-> [status |-> 0, body |-> h.r.v]]
    ELSE [c |-> h.c, request |-> request, dispatched |-> TRUE,
          break_on_send_error |-> FALSE,
          response |-> [status |-> 0,
                        body |-> SerializeResponse(
                            McpErrorResponse(Nil, INTERNAL_ERROR, Display(h.r.e)))]]
on_text(w, env, text) ==
    LET parsed == ParseRequest(text)
    IN  IF ~parsed.ok
          THEN [c |-> Ctx0(w), request |-> Nil, dispatched |-> FALSE,
                break_on_send_error |-> FALSE,
                response |-> [status |-> 0,
                              body |-> SerializeResponse(
                                  McpErrorResponse(Nil, PARSE_ERROR, "Invalid JSON"))]]
        ELSE WsReply(parsed.v, handle_request(w, env, parsed.v))

(* ------------------------- inputs ------------------------------------- *)
Ids == {JAbsent, JNull, JStr("abc")}
Registry == {INITIALIZE, TOOLS_LIST, TOOLS_CALL, RESOURCES_LIST, RESOURCES_READ,
             GITHUB_PUSH, GITHUB_SCAN_TASKS, GITHUB_MERGE}
OtherMethods == {"notifications/initialized", "github/deploy", ""}

PushArgs ==
    {[EmptyObject EXCEPT !["branch"] = b, !["message"] = m, !["ready_for_review"] = r] :
        b \in {JAbsent, JStr("main"), JStr("trunk"), JStr("feature/x"), JNum},
        m \in {JAbsent, JStr("fix bug")},
        r \in {JAbsent, JBool(TRUE), JStr("yes")}}
ScanArgs ==
    {[EmptyObject EXCEPT !["project_number"] = n, !["filter_type"] = t] :
        n \in {JAbsent, JStr("5"), JNum}, t \in {JAbsent, JStr("bug")}}
MergeArgs ==
    {[EmptyObject EXCEPT !["branch"] = b, !["delete_branch"] = d,
                         !["cleanup_work_folder"] = k] :
        b \in {JAbsent, JStr("trunk"), JStr("feature/x"), JNum},
        d \in {JAbsent, JBool(FALSE), JStr("no")},
        k \in {JAbsent, JBool(TRUE)}}

Params(name, uri, arguments, top) ==
    [name |-> name, uri |-> uri, arguments |-> arguments, top |-> top]
Arbitrary ==
    Params(JStr("github_push"), JStr("github://workflow/status"),
           [EmptyObject EXCEPT !["message"] = JStr("fix bug")],
           [EmptyObject EXCEPT !["message"] = JStr("fix bug")])

ParamsOf(method) ==
    CASE method = TOOLS_CALL ->
           {Nil}
           \cup {Params(n, JAbsent, a, EmptyObject) :
                   n \in {JAbsent, JNum, JStr("github_deploy"), JStr("")},
                   a \in {Nil, [EmptyObject EXCEPT !["message"] = JStr("fix bug")],
                          [EmptyObject EXCEPT !["branch"] = JNum]}}
           \cup {Params(JStr("github_push"), JAbsent, a, EmptyObject) :
                   a \in {Nil} \cup PushArgs}
           \cup {Params(JStr("github_scan_tasks"), JAbsent, a, EmptyObject) :
                   a \in {Nil} \cup ScanArgs}
           \cup {Params(JStr("github_merge"), JAbsent, a, EmptyObject) :
                   a \in {Nil} \cup MergeArgs}
      [] method = RESOURCES_READ ->
           {Nil} \cup {Params(JAbsent, u, Nil, EmptyObject) :
                         u \in {JAbsent, JNum, JStr("github://workflow/status"),
                                JStr("github://projects/tasks"),
                                JStr("github://projects/other")}}
      [] method = GITHUB_PUSH ->
           {Nil} \cup {Params(JAbsent, JAbsent, Nil, a) : a \in PushArgs}
      [] method = GITHUB_SCAN_TASKS ->
           {Nil} \cup {Params(JAbsent, JAbsent, Nil, a) : a \in ScanArgs}
      [] method = GITHUB_MERGE ->
           {Nil} \cup {Params(JAbsent, JAbsent, Nil, a) : a \in MergeArgs}
      [] OTHER -> {Nil, Params(JAbsent, JAbsent, Nil, EmptyObject), Arbitrary}

Text(jsonrpc, id, method, params) ==
    [syntax |-> "object", jsonrpc |-> jsonrpc, id |-> id, method |-> method,
     params |-> params]
ValidTexts ==
    UNION {{Text(JStr("2.0"), id, JStr(m), p) : id \in Ids, p \in ParamsOf(m)} :
             m \in Registry \cup OtherMethods}
Unparsable ==
    {[syntax |-> "garbage", jsonrpc |-> JAbsent, id |-> JAbsent,
      method |-> JAbsent, params |-> Nil],
     Text(JStr("2.0"), JNum, JAbsent, Nil),
     Text(JAbsent, JNum, JStr(GITHUB_PUSH), Nil),
     Text(JStr("2.0"), JNum, JNum, Arbitrary)}
Texts == ValidTexts \cup Unparsable

Envs ==
    {[fail |-> f, residual |-> FALSE] :
        f \in {"none", "current_branch", "status", "add", "commit", "push",
               "checkout", "pull", "delete_nonzero", "delete_spawn",
               "project_items"}}
    \cup {[fail |-> "none", residual |-> TRUE]}

TodoFiles ==
    {[readable |-> FALSE, lines |-> <<>>],
     [readable |-> TRUE,
      lines |-> << [marker |-> "", words |-> <<"#", "TODO", "7">>],
                   [marker |-> "Project Number:", words |-> <<"Project", "Number:">>],
                   [marker |-> "GitHub Project:",
                    words |-> <<"GitHub", "Project:", "#3", "12", "0">>] >>],
     [readable |-> TRUE,
      lines |-> << [marker |-> "", words |-> <<"Sprint", "12">>],
                   [marker |-> "GitHub Project:",
                    words |-> <<"GitHub", "Project:", "#3", "tbd">>] >>]}
\* Push, Merge and get_status read the git fields only, ScanTasks and
\* get_tasks the project fields only: each family varies with the other fixed.
Repos ==
    [checked_out : {"main", "feature/x"},
     remote_head : {"spawn_failed", "exit_nonzero", "no_head_line", "main",
                    "trunk", " trunk"},
     dirty : BOOLEAN,
     todo : {[readable |-> FALSE, lines |-> <<>>]},
     env_project : {None},
     pull_request : {None}]
    \cup
    [checked_out : {"feature/x"},
     remote_head : {"main"},
     dirty : {FALSE},
     todo : {[readable |-> FALSE, lines |-> <<>>]},
     env_project : {None},
     pull_request : {"42"}]
    \cup
    [checked_out : {"feature/x"},
     remote_head : {"main"},
     dirty : {FALSE},
     todo : TodoFiles,
     env_project : {None, "7"},
     pull_request : {None}]

(* ------------------------- state -------------------------------------- *)
VARIABLES
    repo,      \* the working tree and its surroundings (see the git adapter)
    exch,      \* the request being answered, Nil when none is:
               \* [transport, seq, text, env, before, request, dispatched,
               \*  command, response, trace, break_on_send_error]: env is
               \* what went wrong during it, before the tree it started on
    ws_pc,     \* handle_websocket: "recv" at receiver.next(), "send" at
               \* sender.send(), "closed" after the loop
    ws_in,     \* text messages taken from the connection so far
    ws_out,    \* frames given to sender.send(), in order: [reply_to, code,
               \* sent]: the text message answered, the error code (0 for a
               \* result) and whether the send succeeded
    ws_last,   \* the kind of the last item receiver.next() gave
    limiters,  \* RateLimitingLayer.limiters: address -> tokens left
    rl_log,    \* the rate limiting layer's history: calls and replenishments
    applied,   \* a function applied on its own: [fn, input, output], Nil
               \* before
    reqs,      \* the futures of RateLimitingService::call that run at the
               \* same time: [pc, ip, limiter, forwarded], limiter the Arc
               \* the request holds (an index of arcs, 0 for none)
    write_lock, \* the RwLock of RateLimitingLayer.limiters: the request
               \* that holds the write guard, 0 when it is free
    arcs,      \* every RateLimiter created so far: [ip, cells]
    arc_map,   \* the HashMap behind the lock: address -> index of arcs
    cmds,      \* the workflow commands that run at the same time: [kind, pc,
               \* staged, overtaken, outcome]: pc the git process the
               \* command runs next, staged whether its git add found
               \* changes to stage, overtaken whether another command
               \* committed between its git add and its git commit
    tree       \* the working directory they share: [unstaged, staged]:
               \* changes not in the index, changes in the index

vars == <<repo, exch, ws_pc, ws_in, ws_out, ws_last, limiters, rl_log, applied,
          reqs, write_lock, arcs, arc_map, cmds, tree>>
ws_vars == <<ws_pc, ws_in, ws_out, ws_last>>
rl_vars == <<limiters, rl_log>>
layer_vars == <<reqs, write_lock, arcs, arc_map>>
git_vars == <<cmds, tree>>
conc_vars == <<layer_vars, git_vars>>
more_vars == <<applied, conc_vars>>
\* What a specification leaves alone starts out empty.
LayerAtRest == reqs = <<>> /\ write_lock = 0 /\ arcs = <<>> /\ arc_map = <<>>
GitAtRest == cmds = <<>> /\ tree = Nil
AtRest == applied = Nil /\ LayerAtRest /\ GitAtRest

\* Variant that restores the tree a command started on, for the sensitivity of C26.
AfterRolledBack(w, c) == w
After(w, c) == [w EXCEPT !.dirty = c.dirty, !.checked_out = c.checked_out]

Exchange(transport, seq, text, env, out) ==
    [transport |-> transport, seq |-> seq, text |-> text, env |-> env,
     before |-> [dirty |-> repo.dirty, checked_out |-> repo.checked_out],
     request |-> out.request,
     dispatched |-> out.dispatched, command |-> out.c.cmd,
     response |-> out.response, trace |-> out.c.trace,
     break_on_send_error |-> out.break_on_send_error]

\* The handler has run: its answer is pending and its effects are in place.
Answered(transport, seq, text, env, out) ==
    /\ exch' = Exchange(transport, seq, text, env, out)
    /\ repo' = After(repo, out.c)

Init ==
    /\ repo \in Repos
    /\ exch = Nil
    /\ ws_pc = "recv"
    /\ ws_in = 0
    /\ ws_out = <<>>
    /\ ws_last = "none"
    /\ limiters = <<>>
    /\ rl_log = <<>>
    /\ AtRest

\* One POST /mcp, up to the response handed to the server.
HttpRequest ==
    /\ exch = Nil
    /\ \E text \in Texts, env \in Envs :
         Answered("http", 0, text, env, handle_mcp_request(repo, env, text))
    /\ UNCHANGED <<ws_vars, rl_vars>>
    /\ UNCHANGED more_vars

\* One text message of a WebSocket connection, up to the frame to send.
WsText ==
    /\ exch = Nil
    /\ \E text \in Texts, env \in Envs :
         Answered("ws", 0, text, env, on_text(repo, env, text))
    /\ UNCHANGED <<ws_vars, rl_vars>>
    /\ UNCHANGED more_vars

\* The response is written to the connection.
Reply ==
    /\ exch # Nil
    /\ exch' = Nil
    /\ UNCHANGED <<repo, ws_vars, rl_vars>>
    /\ UNCHANGED more_vars

Next == HttpRequest \/ WsText \/ Reply

Spec == Init /\ [][Next]_vars

(* ------------------------- one WebSocket connection ------------------- *)
\* The text messages a connection carries here: unparsable ones, and
\* requests answered with a result, with an error response and with an Err.
WsTexts ==
    {[syntax |-> "garbage", jsonrpc |-> JAbsent, id |-> JAbsent,
      method |-> JAbsent, params |-> Nil],
     Text(JStr("2.0"), JStr("abc"), JAbsent, Nil),
     Text(JStr("2.0"), JStr("abc"), JStr(INITIALIZE), Nil),
     Text(JStr("2.0"), JStr("abc"), JStr("github/deploy"), Nil),
     Text(JStr("2.0"), JStr("abc"), JStr(TOOLS_CALL), Nil),
     Text(JStr("2.0"), JNull, JStr(GITHUB_PUSH), Nil)}
WsRepos ==
    {[checked_out |-> "feature/x", remote_head |-> "main", dirty |-> FALSE,
      todo |-> [readable |-> FALSE, lines |-> <<>>], env_project |-> None,
      pull_request |-> None]}

InitWs ==
    /\ repo \in WsRepos
    /\ exch = Nil
    /\ ws_pc = "recv"
    /\ ws_in = 0
    /\ ws_out = <<>>
    /\ ws_last = "none"
    /\ limiters = <<>>
    /\ rl_log = <<>>
    /\ AtRest

\* while let Some(msg) = receiver.next().await: the loop is at the top.
\* Variant that receives while a send is pending, for the sensitivity of C8.
AtReceiveOrSend == ws_pc \in {"recv", "send"}
AtReceive == ws_pc = "recv"

\* After sender.send(): break when the send failed and the arm breaks on it.
\* Variant that breaks on every failed send, for the sensitivity of C9.
AfterSendBreakAlways(sent, break_on_send_error) ==
    IF ~sent THEN "closed" ELSE "recv"
AfterSend(sent, break_on_send_error) ==
    IF ~sent /\ break_on_send_error THEN "closed" ELSE "recv"

\* Ok(Message::Text(text)): parse, dispatch, and come to sender.send().
WsRecvText ==
    /\ AtReceive
    /\ ws_in < MaxMsgs
    /\ \E text \in WsTexts, env \in Envs :
         Answered("ws", ws_in + 1, text, env, on_text(repo, env, text))
    /\ ws_in' = ws_in + 1
    /\ ws_last' = "text"
    /\ ws_pc' = "send"
    /\ UNCHANGED <<ws_out, rl_vars>>
    /\ UNCHANGED more_vars

\* sender.send(Message::Text(..)).await, which succeeds or fails.
WsSend ==
    /\ ws_pc = "send"
    /\ \E sent \in BOOLEAN :
         /\ ws_out' = Append(ws_out,
                             [reply_to |-> exch.seq,
                              code |-> IF "error" \in exch.response.body.keys
                                         THEN exch.response.body.error.code ELSE 0,
                              sent |-> sent])
         /\ ws_pc' = AfterSend(sent, exch.break_on_send_error)
    /\ exch' = Nil
    /\ UNCHANGED <<repo, ws_in, ws_last, rl_vars>>
    /\ UNCHANGED more_vars

\* Ok(Message::Close(_)) => break
WsRecvClose ==
    /\ AtReceive
    /\ ws_last' = "close"
    /\ ws_pc' = "closed"
    /\ UNCHANGED <<repo, exch, ws_in, ws_out, rl_vars>>
    /\ UNCHANGED more_vars

\* Err(e) => break
WsRecvError ==
    /\ AtReceive
    /\ ws_last' = "error"
    /\ ws_pc' = "closed"
    /\ UNCHANGED <<repo, exch, ws_in, ws_out, rl_vars>>
    /\ UNCHANGED more_vars

\* _ => {}: binary, ping and pong frames are skipped.
WsRecvOther ==
    /\ AtReceive
    /\ ws_last' = "other"
    /\ UNCHANGED <<repo, exch, ws_pc, ws_in, ws_out, rl_vars>>
    /\ UNCHANGED more_vars

\* receiver.next() gives None: the stream is over.
WsStreamEnd ==
    /\ AtReceive
    /\ ws_last' = "end"
    /\ ws_pc' = "closed"
    /\ UNCHANGED <<repo, exch, ws_in, ws_out, rl_vars>>
    /\ UNCHANGED more_vars

NextWs ==
    WsRecvText \/ WsSend \/ WsRecvClose \/ WsRecvError \/ WsRecvOther
        \/ WsStreamEnd

SpecWs == InitWs /\ [][NextWs]_vars

(* ------------------------- security/mod.rs: rate limiting ------------- *)
(* A request's headers are [xff, real_ip]: x-forwarded-for is None or the  *)
(* pieces of its value between commas, x-real-ip is None or its value.     *)
(* RateLimitingLayer.limiters maps an address to its limiter, here the     *)
(* cells its quota has left: Quota::per_minute(n) allows a burst of n and  *)
(* replenishes one cell every 60/n seconds.                                *)
IpLiterals == {"10.0.0.1", "10.0.0.2", "127.0.0.1"}
\* str::trim and str::parse::<IpAddr>
Trim(s) == IF s = " 10.0.0.2" THEN "10.0.0.2" ELSE s
ParseIp(s) == IF s \in IpLiterals THEN s ELSE None

\* Variant in which a forwarded-for header decides alone, for the sensitivity of C30.
extract_client_ip_forwarded_only(headers) ==
    IF headers.xff # None THEN ParseIp(Trim(Head(headers.xff)))
    ELSE IF headers.real_ip # None /\ ParseIp(headers.real_ip) # None
      THEN ParseIp(headers.real_ip)
    ELSE None
extract_client_ip(headers) ==
    IF headers.xff # None /\ ParseIp(Trim(Head(headers.xff))) # None
      THEN ParseIp(Trim(Head(headers.xff)))
    ELSE IF headers.real_ip # None /\ ParseIp(headers.real_ip) # None
      THEN ParseIp(headers.real_ip)
    ELSE None

\* extract_client_ip(&req).unwrap_or_else(|| "127.0.0.1".parse().unwrap())
ClientIp(headers) ==
    IF extract_client_ip(headers) = None THEN "127.0.0.1"
    ELSE extract_client_ip(headers)

\* The map after get_or_create_limiter(ip): a missing limiter is inserted
\* with its whole burst available.
get_or_create_limiter(ls, ip) ==
    [a \in DOMAIN ls \cup {ip} |->
        IF a \in DOMAIN ls THEN ls[a] ELSE RequestsPerMinute]

\* Variants that admit one request too many and that take a cell from every
\* limiter, for the sensitivity of C6 and C7.
check_through(ls, ip) ==
    [ok |-> ls[ip] >= 0,
     ls |-> IF ls[ip] >= 0 THEN [ls EXCEPT ![ip] = @ - 1] ELSE ls]
check_shared(ls, ip) ==
    [ok |-> ls[ip] > 0,
     ls |-> IF ls[ip] > 0
              THEN [a \in DOMAIN ls |-> IF ls[a] > 0 THEN ls[a] - 1 ELSE 0]
            ELSE ls]
\* limiter.check(): Ok and one cell taken when a cell is left, else Err.
check(ls, ip) ==
    [ok |-> ls[ip] > 0,
     ls |-> IF ls[ip] > 0 THEN [ls EXCEPT ![ip] = @ - 1] ELSE ls]

\* Response::builder().status(StatusCode::TOO_MANY_REQUESTS)...
TooManyRequests ==
    [status |-> 429,
     body |-> [keys |-> {"error", "message"}, id |-> Nil, result |-> Nil,
               error |-> [label |-> "Rate limit exceeded",
                          message |-> "Too many requests"]]]

HeaderSets ==
    [xff : {None, <<"10.0.0.1">>, <<" 10.0.0.2", "10.0.0.1">>,
            <<"unknown", "10.0.0.1">>},
     real_ip : {None, "10.0.0.2", "bogus"}]
RlTexts ==
    {Text(JStr("2.0"), JStr("abc"), JStr(INITIALIZE), Nil),
     Text(JStr("2.0"), JStr("abc"), JStr(GITHUB_MERGE), Nil)}
RlEnv == [fail |-> "none", residual |-> FALSE]

Calls == Len(SelectSeq(rl_log, LAMBDA e : e.kind = "call"))
Ticks == Len(SelectSeq(rl_log, LAMBDA e : e.kind = "tick"))

InitRL ==
    /\ repo \in WsRepos
    /\ exch = Nil
    /\ ws_pc = "recv"
    /\ ws_in = 0
    /\ ws_out = <<>>
    /\ ws_last = "none"
    /\ limiters = <<>>
    /\ rl_log = <<>>
    /\ AtRest

\* check() passed: inner.call(req), here POST /mcp.
Forward(ls, ip, text, out) ==
    /\ limiters' = ls
    /\ Answered("http", Len(rl_log) + 1, text, RlEnv, out)
    /\ rl_log' = Append(rl_log, [kind |-> "call", ip |-> ip, forwarded |-> TRUE,
                                 status |-> out.response.status])

\* check() failed: the 429 response, and inner is not called.
Reject(ls, ip) ==
    /\ limiters' = ls
    /\ rl_log' = Append(rl_log, [kind |-> "call", ip |-> ip, forwarded |-> FALSE,
                                 status |-> TooManyRequests.status])
    /\ UNCHANGED <<repo, exch>>

Checked(ip, checked, text) ==
    IF checked.ok
      THEN Forward(checked.ls, ip, text, handle_mcp_request(repo, RlEnv, text))
    ELSE Reject(checked.ls, ip)

\* RateLimitingService::call for one request.
RlCall ==
    /\ Calls < MaxCalls
    /\ \E headers \in HeaderSets, text \in RlTexts :
         Checked(ClientIp(headers),
                 check(get_or_create_limiter(limiters, ClientIp(headers)),
                       ClientIp(headers)),
                 text)
    /\ UNCHANGED ws_vars
    /\ UNCHANGED more_vars

\* 60/n seconds pass: every limiter gets one cell back, up to its burst.
RlTick ==
    /\ Ticks < MaxTicks
    /\ limiters' = [a \in DOMAIN limiters |->
                      IF limiters[a] < RequestsPerMinute THEN limiters[a] + 1
                      ELSE limiters[a]]
    /\ rl_log' = Append(rl_log, [kind |-> "tick"])
    /\ UNCHANGED <<repo, exch, ws_vars>>
    /\ UNCHANGED more_vars

NextRL == RlCall \/ RlTick

SpecRL == InitRL /\ [][NextRL]_vars

(* ------------------------- the limiter in front of both routes -------- *)
\* create_router: .route("/mcp", post(..)).route("/mcp/ws", get(..)) under
\* .layer(rate_limiting_layer()): RateLimitingService::call runs once for a
\* POST /mcp and once for the GET /mcp/ws that upgrades a connection; the
\* loop of handle_websocket then runs behind the upgraded connection.
InitGate ==
    /\ repo \in WsRepos
    /\ exch = Nil
    /\ ws_pc = "none"
    /\ ws_in = 0
    /\ ws_out = <<>>
    /\ ws_last = "none"
    /\ limiters = <<>>
    /\ rl_log = <<>>
    /\ AtRest

\* check() passed: websocket_handler answers 101 and on_upgrade starts
\* handle_websocket; check() failed: the 429 response and no connection.
Upgraded(ip, checked) ==
    IF checked.ok
      THEN /\ limiters' = checked.ls
           /\ rl_log' = Append(rl_log, [kind |-> "call", ip |-> ip,
                                        forwarded |-> TRUE, status |-> 101])
           /\ ws_pc' = "recv"
           /\ UNCHANGED <<repo, exch>>
    ELSE Reject(checked.ls, ip) /\ ws_pc' = ws_pc

\* The caller behind no proxy and a caller behind one.
GateHeaders == [xff : {None}, real_ip : {None, "10.0.0.2"}]
GateText == Text(JStr("2.0"), JStr("abc"), JStr(INITIALIZE), Nil)

\* RateLimitingService::call for GET /mcp/ws.
GateUpgrade ==
    /\ ws_pc = "none"
    /\ Calls < MaxCalls
    /\ \E headers \in GateHeaders :
         Upgraded(ClientIp(headers),
                  check(get_or_create_limiter(limiters, ClientIp(headers)),
                        ClientIp(headers)))
    /\ UNCHANGED <<ws_in, ws_out, ws_last>>
    /\ UNCHANGED more_vars

\* RateLimitingService::call for POST /mcp, between two frames of the
\* connection.
GatePost ==
    /\ ws_pc # "send"
    /\ Calls < MaxCalls
    /\ \E headers \in GateHeaders :
         Checked(ClientIp(headers),
                 check(get_or_create_limiter(limiters, ClientIp(headers)),
                       ClientIp(headers)),
                 GateText)
    /\ UNCHANGED ws_vars
    /\ UNCHANGED more_vars

\* Variant in which a text message takes a cell from the limiters, for the
\* sensitivity of C37.
GateRecvTextMetered ==
    /\ AtReceive
    /\ ws_in < MaxMsgs
    /\ Answered("ws", ws_in + 1, GateText, RlEnv, on_text(repo, RlEnv, GateText))
    /\ ws_in' = ws_in + 1
    /\ ws_last' = "text"
    /\ ws_pc' = "send"
    /\ limiters' = [a \in DOMAIN limiters |->
                      IF limiters[a] > 0 THEN limiters[a] - 1 ELSE 0]
    /\ UNCHANGED <<ws_out, rl_log>>
    /\ UNCHANGED more_vars
\* Ok(Message::Text(text)) in the loop of handle_websocket: handle_request
\* is called with the parsed request, and nothing of the layer is.
GateRecvText ==
    /\ AtReceive
    /\ ws_in < MaxMsgs
    /\ Answered("ws", ws_in + 1, GateText, RlEnv, on_text(repo, RlEnv, GateText))
    /\ ws_in' = ws_in + 1
    /\ ws_last' = "text"
    /\ ws_pc' = "send"
    /\ UNCHANGED <<ws_out, rl_vars>>
    /\ UNCHANGED more_vars

NextGate ==
    GateUpgrade \/ GatePost \/ GateRecvText \/ WsSend \/ WsRecvClose

SpecGate == InitGate /\ [][NextGate]_vars

(* ------------------------- a tool call and its direct method ---------- *)
\* POST /mcp with tools/call for a tool, and with the tool's direct method
\* and the same object as params, on the same tree with the same processes
\* failing: what each builds, invokes and answers.
ToolMethods == <<GITHUB_PUSH, GITHUB_SCAN_TASKS, GITHUB_MERGE>>
\* The fields of each GitHubCommand variant, in the order of the enum.
ToolFields ==
    << <<"branch", "message", "ready_for_review">>,
       <<"project_number", "filter_type", "status">>,
       <<"branch", "delete_branch", "cleanup_work_folder">> >>
\* Option<bool> for the three flags, Option<String> for the rest.
DeclaredType(field) ==
    IF field \in {"ready_for_review", "delete_branch", "cleanup_work_folder"}
      THEN "bool" ELSE "str"
ArgValues == {JAbsent, JNull, JStr("feature/x"), JBool(TRUE), JNum}
ArgObject(fields, x, y, z) ==
    [EmptyObject EXCEPT ![fields[1]] = x, ![fields[2]] = y, ![fields[3]] = z]

InitAlias ==
    /\ repo \in Repos
    /\ exch = Nil
    /\ ws_pc = "recv"
    /\ ws_in = 0
    /\ ws_out = <<>>
    /\ ws_last = "none"
    /\ limiters = <<>>
    /\ rl_log = <<>>
    /\ AtRest

Seen(h) == [cmd |-> h.c.cmd, trace |-> h.c.trace, response |-> h.response]
Compared(tool, arguments, env, id, call, alias) ==
    applied' = [fn |-> "tools_call_and_alias",
                input |-> [tool |-> tool, arguments |-> arguments, env |-> env,
                           id |-> id],
                output |-> [call |-> Seen(call), alias |-> Seen(alias)]]

CallAndAlias ==
    /\ applied = Nil
    /\ \E tool \in 1..3, x \in ArgValues, y \in ArgValues, z \in ArgValues,
          env \in Envs, id \in {JAbsent, JStr("abc")} :
         Compared(tool, ArgObject(ToolFields[tool], x, y, z), env, id,
                  handle_mcp_request(repo, env,
                      Text(JStr("2.0"), id, JStr(TOOLS_CALL),
                           Params(JStr(ToolNames[tool]), JAbsent,
                                  ArgObject(ToolFields[tool], x, y, z),
                                  EmptyObject))),
                  handle_mcp_request(repo, env,
                      Text(JStr("2.0"), id, JStr(ToolMethods[tool]),
                           Params(JAbsent, JAbsent, Nil,
                                  ArgObject(ToolFields[tool], x, y, z)))))
    /\ UNCHANGED <<repo, exch, ws_vars, rl_vars>>
    /\ UNCHANGED conc_vars

NextAlias == CallAndAlias

SpecAlias == InitAlias /\ [][NextAlias]_vars

(* ------------------------- concurrent calls of the rate limiter ------- *)
\* RateLimitingService::call, lines 116-140, for requests whose futures run
\* at the same time on the runtime's worker threads, within one replenish
\* interval.  A future is preempted only between the steps below: the write
\* guard of get_or_create_limiter is taken at line 67 and dropped when the
\* function returns, and limiter.check() is one atomic update of the
\* limiter's state.
BurstHeaders == [xff : {None, <<"10.0.0.1">>}, real_ip : {None, "10.0.0.2"}]
Requests == 1..MaxRequests

InitLayer ==
    /\ repo \in WsRepos
    /\ exch = Nil
    /\ ws_pc = "recv"
    /\ ws_in = 0
    /\ ws_out = <<>>
    /\ ws_last = "none"
    /\ limiters = <<>>
    /\ rl_log = <<>>
    /\ applied = Nil
    /\ GitAtRest
    /\ reqs = [i \in Requests |-> [pc |-> "idle", ip |-> None, limiter |-> 0,
                                   forwarded |-> FALSE]]
    /\ write_lock = 0
    /\ arcs = <<>>
    /\ arc_map = <<>>

\* Variant in which the guard is handed out while another holds it, for the
\* sensitivity of C28.
WriteLockIgnored == TRUE
\* self.limiters.write().await is granted when no guard is out.
WriteLockFree == write_lock = 0

\* Line 118: the address of the request.
LayerCall ==
    /\ \E i \in Requests, headers \in BurstHeaders :
         /\ reqs[i].pc = "idle"
         /\ reqs' = [reqs EXCEPT ![i].pc = "write", ![i].ip = ClientIp(headers)]
    /\ UNCHANGED <<write_lock, arcs, arc_map>>
    /\ UNCHANGED <<repo, exch, ws_vars, rl_vars, applied, git_vars>>

\* Line 67: the write guard is taken.
LockWrite ==
    /\ WriteLockFree
    /\ \E i \in Requests :
         /\ reqs[i].pc = "write"
         /\ reqs' = [reqs EXCEPT ![i].pc = "locked"]
         /\ write_lock' = i
    /\ UNCHANGED <<arcs, arc_map>>
    /\ UNCHANGED <<repo, exch, ws_vars, rl_vars, applied, git_vars>>

\* Lines 69-71: the address has a limiter, its Arc is cloned and returned.
LimiterFound ==
    /\ \E i \in Requests :
         /\ reqs[i].pc = "locked"
         /\ reqs[i].ip \in DOMAIN arc_map
         /\ reqs' = [reqs EXCEPT ![i].pc = "check",
                                 ![i].limiter = arc_map[reqs[i].ip]]
    /\ write_lock' = 0
    /\ UNCHANGED <<arcs, arc_map>>
    /\ UNCHANGED <<repo, exch, ws_vars, rl_vars, applied, git_vars>>

\* Line 69: the address has no limiter yet.
LimiterMissing ==
    /\ \E i \in Requests :
         /\ reqs[i].pc = "locked"
         /\ reqs[i].ip \notin DOMAIN arc_map
         /\ reqs' = [reqs EXCEPT ![i].pc = "create"]
    /\ UNCHANGED <<write_lock, arcs, arc_map>>
    /\ UNCHANGED <<repo, exch, ws_vars, rl_vars, applied, git_vars>>

\* Lines 73-77: a limiter with its whole burst is created and inserted
\* (HashMap::insert puts it in the place of whatever the key had).
LimiterCreated ==
    /\ \E i \in Requests :
         /\ reqs[i].pc = "create"
         /\ arcs' = Append(arcs, [ip |-> reqs[i].ip, cells |-> RequestsPerMinute])
         /\ arc_map' = [a \in DOMAIN arc_map \cup {reqs[i].ip} |->
                          IF a = reqs[i].ip THEN Len(arcs) + 1 ELSE arc_map[a]]
         /\ reqs' = [reqs EXCEPT ![i].pc = "check", ![i].limiter = Len(arcs) + 1]
    /\ write_lock' = 0
    /\ UNCHANGED <<repo, exch, ws_vars, rl_vars, applied, git_vars>>

\* Lines 124-128: check() takes a cell and the request goes to inner.
CheckPassed ==
    /\ \E i \in Requests :
         /\ reqs[i].pc = "check"
         /\ arcs[reqs[i].limiter].cells > 0
         /\ arcs' = [arcs EXCEPT ![reqs[i].limiter].cells = @ - 1]
         /\ reqs' = [reqs EXCEPT ![i].pc = "done", ![i].forwarded = TRUE]
    /\ UNCHANGED <<write_lock, arc_map>>
    /\ UNCHANGED <<repo, exch, ws_vars, rl_vars, applied, git_vars>>

\* Lines 129-139: no cell is left, the 429 response.
CheckFailed ==
    /\ \E i \in Requests :
         /\ reqs[i].pc = "check"
         /\ arcs[reqs[i].limiter].cells = 0
         /\ reqs' = [reqs EXCEPT ![i].pc = "done"]
    /\ UNCHANGED <<write_lock, arcs, arc_map>>
    /\ UNCHANGED <<repo, exch, ws_vars, rl_vars, applied, git_vars>>

NextLayer ==
    \/ LayerCall
    \/ LockWrite
    \/ LimiterFound
    \/ LimiterMissing
    \/ LimiterCreated
    \/ CheckPassed
    \/ CheckFailed

SpecLayer == InitLayer /\ [][NextLayer]_vars

(* ------------------------- concurrent workflow commands --------------- *)
\* Push with a commit message and Merge, running at the same time on the
\* runtime's worker threads in the one working directory of the server.
\* Each step is one git process (Command::output); nothing in workflows.rs
\* keeps the processes of two commands apart.  The branch is not the main
\* branch and no process fails for a reason of its own.
Commands == 1..MaxCommands
CommandKinds == {"PushMessage", "Merge"}

InitGit ==
    /\ repo \in WsRepos
    /\ exch = Nil
    /\ ws_pc = "recv"
    /\ ws_in = 0
    /\ ws_out = <<>>
    /\ ws_last = "none"
    /\ limiters = <<>>
    /\ rl_log = <<>>
    /\ applied = Nil
    /\ LayerAtRest
    /\ cmds = [i \in Commands |-> [kind |-> None, pc |-> "idle", staged |-> FALSE,
                                   overtaken |-> FALSE, outcome |-> None]]
    /\ tree \in [unstaged : BOOLEAN, staged : BOOLEAN]

\* git status --porcelain lists the changes in and out of the index.
Porcelain(t) == StatusLines(t.unstaged \/ t.staged)
\* Variant in which git add stages nothing, for the sensitivity of C27.
git_add_nothing(t) == t
\* git add . puts every change in the index.
git_add(t) == [unstaged |-> FALSE, staged |-> t.unstaged \/ t.staged]

\* execute_push_workflow with a message goes to commit_changes (lines
\* 83-86), execute_merge_workflow to get_git_status (line 200).
CommandStart ==
    /\ \E i \in Commands, kind \in CommandKinds :
         /\ cmds[i].pc = "idle"
         /\ cmds' = [cmds EXCEPT ![i].kind = kind,
                                 ![i].pc = IF kind = "Merge" THEN "status" ELSE "add"]
    /\ UNCHANGED tree
    /\ UNCHANGED <<repo, exch, ws_vars, rl_vars, applied, layer_vars>>

\* get_git_status, then lines 89-96 of Push (stop on uncommitted changes,
\* else push) and lines 200-207 of Merge (commit when there are changes,
\* else push).
GitStatus ==
    /\ \E i \in Commands :
         /\ cmds[i].pc = "status"
         /\ cmds' =
              IF Porcelain(tree) = <<>>
                THEN [cmds EXCEPT ![i].pc = "push"]
              ELSE IF cmds[i].kind = "Merge"
                THEN [cmds EXCEPT ![i].pc = "add"]
              ELSE [cmds EXCEPT ![i].pc = "done", ![i].outcome = "uncommitted"]
    /\ UNCHANGED tree
    /\ UNCHANGED <<repo, exch, ws_vars, rl_vars, applied, layer_vars>>

\* commit_changes, lines 314-321.
GitAdd ==
    /\ \E i \in Commands :
         /\ cmds[i].pc = "add"
         /\ cmds' = [cmds EXCEPT ![i].pc = "commit",
                                 ![i].staged = tree.unstaged \/ tree.staged]
    /\ tree' = git_add(tree)
    /\ UNCHANGED <<repo, exch, ws_vars, rl_vars, applied, layer_vars>>

\* commit_changes, lines 324-333: git commit records the index; then the
\* status check of Push, or the push of Merge.
GitCommit ==
    /\ tree.staged
    /\ \E i \in Commands :
         /\ cmds[i].pc = "commit"
         /\ cmds' = [k \in Commands |->
                       IF k = i
                         THEN [cmds[k] EXCEPT
                                 !.pc = IF cmds[i].kind = "Merge" THEN "push"
                                        ELSE "status"]
                       ELSE IF cmds[k].pc = "commit"
                         THEN [cmds[k] EXCEPT !.overtaken = TRUE]
                       ELSE cmds[k]]
    /\ tree' = [tree EXCEPT !.staged = FALSE]
    /\ UNCHANGED <<repo, exch, ws_vars, rl_vars, applied, layer_vars>>

\* commit_changes, lines 329-331: git commit exits non-zero when the index
\* holds nothing to commit, and the command ends with the Err.
GitCommitFailed ==
    /\ ~tree.staged
    /\ \E i \in Commands :
         /\ cmds[i].pc = "commit"
         /\ cmds' = [cmds EXCEPT ![i].pc = "done",
                                 ![i].outcome = "Git commit command failed"]
    /\ UNCHANGED tree
    /\ UNCHANGED <<repo, exch, ws_vars, rl_vars, applied, layer_vars>>

\* push_branch, the last git process of both commands.
GitPush ==
    /\ \E i \in Commands :
         /\ cmds[i].pc = "push"
         /\ cmds' = [cmds EXCEPT ![i].pc = "done", ![i].outcome = "pushed"]
    /\ UNCHANGED tree
    /\ UNCHANGED <<repo, exch, ws_vars, rl_vars, applied, layer_vars>>

NextGit ==
    \/ CommandStart
    \/ GitStatus
    \/ GitAdd
    \/ GitCommit
    \/ GitCommitFailed
    \/ GitPush

SpecGit == InitGit /\ [][NextGit]_vars

(* ------------------------- the Merge path behind the lookup ---------- *)
\* get_github_client(state, None) has no token to use and get_pr_for_branch
\* is not written yet, so no Merge of the program gets past line 211 (Spec).
\* Lines 213-251 are applied here on their own: to the tree a Merge leaves
\* after its push and to a pull request of the type the lookup is declared
\* to return.
PullRequests == {[number |-> "42", html_url |-> "html_url", title |-> "title"]}
located_after(w, env, h, pr, delete_branch, cleanup_work_folder) ==
    merge_located(w, env, h.c, pr, h.current_branch, h.main_branch,
                  delete_branch, cleanup_work_folder)

MergeRepos ==
    [checked_out : {"main", "feature/x"},
     remote_head : {"exit_nonzero", "main", "trunk"},
     dirty : BOOLEAN,
     todo : {[readable |-> FALSE, lines |-> <<>>]},
     env_project : {None},
     pull_request : {"42"}]
MergeBranches == {None, "trunk", "feature/x"}
MergeFlags == {None, "true", "false"}

InitMerge ==
    /\ repo \in MergeRepos
    /\ exch = Nil
    /\ ws_pc = "recv"
    /\ ws_in = 0
    /\ ws_out = <<>>
    /\ ws_last = "none"
    /\ limiters = <<>>
    /\ rl_log = <<>>
    /\ AtRest

MergeApplied(env, branch, pr, delete_branch, cleanup_work_folder, out) ==
    /\ applied' = [fn |-> "merge_located",
                   input |-> [branch |-> branch, pr |-> pr,
                              delete_branch |-> delete_branch,
                              cleanup_work_folder |-> cleanup_work_folder,
                              env |-> env,
                              before |-> [dirty |-> repo.dirty,
                                          checked_out |-> repo.checked_out]],
                   output |-> out]
    /\ repo' = After(repo, out.c)

MergeLocated ==
    /\ applied = Nil
    /\ \E env \in Envs, branch \in MergeBranches, pr \in PullRequests,
          delete_branch \in MergeFlags, cleanup_work_folder \in MergeFlags :
         /\ merge_pushed(repo, env, branch).r.ok
         /\ MergeApplied(env, branch, pr, delete_branch, cleanup_work_folder,
                         located_after(repo, env, merge_pushed(repo, env, branch),
                                       pr, delete_branch, cleanup_work_folder))
    /\ UNCHANGED <<exch, ws_vars, rl_vars>>
    /\ UNCHANGED conc_vars

NextMerge == MergeLocated

SpecMerge == InitMerge /\ [][NextMerge]_vars

(* ------------------------- caller address resolution ------------------ *)
\* RateLimitingService::call, lines 116-121, on its own: the address of a
\* request and the limiter map after get_or_create_limiter on an empty map.
\* x-forwarded-for with one or two pieces, each an address, an address after
\* a blank, a word or nothing.
AddrHeaderSets ==
    [xff : {None, <<"10.0.0.1">>, <<" 10.0.0.2">>, <<"unknown">>, <<"">>,
            <<"10.0.0.1", "10.0.0.1">>, <<"10.0.0.1", " 10.0.0.2">>,
            <<"10.0.0.1", "unknown">>, <<"10.0.0.1", "">>,
            <<" 10.0.0.2", "10.0.0.1">>, <<" 10.0.0.2", " 10.0.0.2">>,
            <<" 10.0.0.2", "unknown">>, <<" 10.0.0.2", "">>,
            <<"unknown", "10.0.0.1">>, <<"unknown", " 10.0.0.2">>,
            <<"unknown", "unknown">>, <<"unknown", "">>, <<"", "10.0.0.1">>,
            <<"", " 10.0.0.2">>, <<"", "unknown">>, <<"", "">>},
     real_ip : {None, "10.0.0.1", "10.0.0.2", "127.0.0.1", "bogus", " 10.0.0.2"}]

InitAddr ==
    /\ repo \in WsRepos
    /\ exch = Nil
    /\ ws_pc = "recv"
    /\ ws_in = 0
    /\ ws_out = <<>>
    /\ ws_last = "none"
    /\ limiters = <<>>
    /\ rl_log = <<>>
    /\ AtRest

ResolveAddress ==
    /\ applied = Nil
    /\ \E headers \in AddrHeaderSets :
         applied' = [fn |-> "client_ip",
                     input |-> headers,
                     output |-> [client_ip |-> ClientIp(headers),
                                 limiters |-> get_or_create_limiter(
                                                  limiters, ClientIp(headers))]]
    /\ UNCHANGED <<repo, exch, ws_vars, rl_vars>>
    /\ UNCHANGED conc_vars

NextAddr == ResolveAddress

SpecAddr == InitAddr /\ [][NextAddr]_vars

(* ------------------------- project number resolution ------------------ *)
\* The resolution of ScanTasks' project number on its own: its result is
\* not part of any answer as long as the GitHub client cannot be obtained.
TodoLines ==
    {[marker |-> "", words |-> <<"Sprint", "12">>],
     [marker |-> "Project Number:", words |-> <<"Project", "Number:">>],
     [marker |-> "GitHub Project:", words |-> <<"GitHub", "Project:", "#3", "12", "0">>],
     [marker |-> "Project Number:", words |-> <<"Project", "Number:", "7">>]}
ProjectTodoFiles ==
    {[readable |-> FALSE, lines |-> <<>>], [readable |-> TRUE, lines |-> <<>>]}
    \cup {[readable |-> TRUE, lines |-> <<a>>] : a \in TodoLines}
    \cup {[readable |-> TRUE, lines |-> <<a, b>>] : a \in TodoLines, b \in TodoLines}
ProjectRepos ==
    [checked_out : {"feature/x"},
     remote_head : {"main"},
     dirty : {FALSE},
     todo : ProjectTodoFiles,
     env_project : {None, "7", ""},
     pull_request : {None}]
ProjectArgs == {None, "5", ""}

InitProject ==
    /\ repo \in ProjectRepos
    /\ exch = Nil
    /\ ws_pc = "recv"
    /\ ws_in = 0
    /\ ws_out = <<>>
    /\ ws_last = "none"
    /\ limiters = <<>>
    /\ rl_log = <<>>
    /\ AtRest

ResolveProject ==
    /\ applied = Nil
    /\ \E project_number \in ProjectArgs :
         applied' = [fn |-> "project_num",
                     input |-> [project_number |-> project_number,
                                todo |-> repo.todo,
                                env_project |-> repo.env_project],
                     output |-> project_num(repo, Ctx0(repo), project_number)]
    /\ UNCHANGED <<repo, exch, ws_vars, rl_vars>>
    /\ UNCHANGED conc_vars

NextProject == ResolveProject

SpecProject == InitProject /\ [][NextProject]_vars

(* ------------------------- what an exchange shows --------------------- *)
Body == exch.response.body
HasResult == "result" \in Body.keys
HasError == "error" \in Body.keys
Ops == {exch.trace[i].op : i \in 1..Len(exch.trace)}
GitMutations == {"commit_changes", "push_branch", "checkout_branch",
                 "pull_branch", "delete_local_branch"}
GitHubCalls == {"get_github_client", "get_pr_for_branch", "get_project_items"}
Ran(tag) == exch # Nil /\ exch.command # Nil /\ exch.command.tag = tag
\* How the first call of op ended.
RetOf(op) ==
    exch.trace[CHOOSE i \in 1..Len(exch.trace) :
                 /\ exch.trace[i].op = op
                 /\ \A j \in 1..(i - 1) : exch.trace[j].op # op].ret
\* The branch a Push or Merge is about: the branch argument, else what
\* get-current-branch reported, else the default; and the main branch name
\* get-main-branch reported, else the default.
ResolvedBranch ==
    IF exch.command.a # None THEN exch.command.a
    ELSE IF RetOf("get_current_branch") = Failed THEN "main"
    ELSE RetOf("get_current_branch")
ResolvedMain ==
    IF RetOf("get_main_branch") = Failed THEN "main" ELSE RetOf("get_main_branch")
\* The id a response to the request in exch.text must carry.
EchoedId == IF exch.text.id.t \in {"absent", "null"} THEN JNull ELSE exch.text.id

\* C1: a Push whose branch is the main branch answers with a result whose
\* status is warning and which requires confirmation, and invokes neither
\* commit nor push, whatever message and ready_for_review are.
C1_PushGuard ==
    (Ran("Push") /\ ResolvedBranch = ResolvedMain) =>
        /\ HasResult /\ ~HasError
        /\ Body.result.status = "warning"
        /\ Body.result.requires_confirmation = "true"
        /\ Ops \cap GitMutations = {}
C1_Witness ==
    /\ Ran("Push") /\ ResolvedBranch = ResolvedMain
    /\ exch.command.b # None /\ exch.command.c = "true"
    /\ repo.dirty
    /\ Body.result.status = "warning"

\* C2: a Merge whose branch is the main branch ends in the validation error
\* and invokes no git mutation and no GitHub call.
C2_MergeGuard ==
    (Ran("Merge") /\ ResolvedBranch = ResolvedMain) =>
        /\ HasError /\ ~HasResult
        /\ Body.error.message =
             "Validation error: Already on main branch. Switch to feature branch first."
        /\ Ops \cap (GitMutations \cup GitHubCalls) = {}
C2_Witness ==
    /\ Ran("Merge") /\ ResolvedBranch = ResolvedMain
    /\ repo.dirty /\ exch.transport = "http"
    /\ exch.response.status = 400

\* C3: the response to a request that parsed carries the request's id, and
\* null when the request had none, on both transports and whatever the
\* outcome.
C3_IdEcho ==
    (exch # Nil /\ exch.request # Nil) =>
        /\ "id" \in Body.keys
        /\ Body.id = EchoedId

\* C4: a response produced by the dispatcher carries exactly one of result
\* and error.
C4_ResultXorError ==
    (exch # Nil /\ exch.dispatched) => (HasResult # HasError)
C4_Witness ==
    /\ exch # Nil /\ exch.dispatched
    /\ HasError /\ ~HasResult
    /\ exch.transport = "ws"
    /\ exch.request.method = TOOLS_CALL
    /\ Body.error.code = METHOD_NOT_FOUND

\* C5: a method outside the registry is answered with METHOD_NOT_FOUND and
\* the request's id, whatever params is, and no workflow, git or GitHub
\* operation is invoked.
C5_UnknownMethod ==
    (exch # Nil /\ exch.request # Nil /\ exch.request.method \notin Registry) =>
        /\ HasError /\ ~HasResult
        /\ Body.error.code = METHOD_NOT_FOUND
        /\ Body.id = EchoedId
        /\ exch.command = Nil
        /\ exch.trace = <<>>
C5_Witness ==
    /\ exch # Nil /\ exch.request # Nil
    /\ exch.request.method = "notifications/initialized"
    /\ exch.request.params = Arbitrary
    /\ exch.text.id = JStr("abc")
    /\ Body.error.code = METHOD_NOT_FOUND

(* ------------------------- what the rate limiting layer shows --------- *)
Min(x, y) == IF x <= y THEN x ELSE y
CallsOf(a) == SelectSeq(rl_log, LAMBDA e : e.kind = "call" /\ e.ip = a)
ForwardedOf(a) == SelectSeq(CallsOf(a), LAMBDA e : e.forwarded)
RejectedOf(a) == SelectSeq(CallsOf(a), LAMBDA e : ~e.forwarded)
Decisions(a) == [i \in 1..Len(CallsOf(a)) |-> CallsOf(a)[i].forwarded]
\* The step is a call the layer rejected.
RejectStep ==
    /\ Len(rl_log') = Len(rl_log) + 1
    /\ rl_log'[Len(rl_log')].kind = "call"
    /\ ~rl_log'[Len(rl_log')].forwarded
\* The step is a call resolved to an address other than b.
CallOfAnother(b) ==
    /\ Len(rl_log') = Len(rl_log) + 1
    /\ rl_log'[Len(rl_log')].kind = "call"
    /\ rl_log'[Len(rl_log')].ip # b
\* What address b is answered when it is the only client: its own calls and
\* the passing of time, on a bucket that starts full.
RECURSIVE Alone(_, _, _)
Alone(log, b, cells) ==
    IF log = <<>> THEN <<>>
    ELSE IF Head(log).kind = "tick"
      THEN Alone(Tail(log), b, Min(cells + 1, RequestsPerMinute))
    ELSE IF Head(log).ip = b
      THEN <<cells > 0>> \o Alone(Tail(log), b, IF cells > 0 THEN cells - 1 ELSE 0)
    ELSE Alone(Tail(log), b, cells)

\* C6: with no replenishment in between, of the k requests resolved to one
\* address exactly min(k, RequestsPerMinute) are forwarded to the inner
\* service and each of the others gets the 429 response; a rejected request
\* does not reach the inner service: it leaves no exchange and no effect.
C6_AdmissionCount ==
    /\ [](Ticks = 0 =>
            \A a \in IpLiterals :
                /\ Len(ForwardedOf(a)) = Min(Len(CallsOf(a)), RequestsPerMinute)
                /\ Len(RejectedOf(a)) =
                       Len(CallsOf(a)) - Min(Len(CallsOf(a)), RequestsPerMinute)
                /\ \A i \in 1..Len(RejectedOf(a)) : RejectedOf(a)[i].status = 429)
    /\ [](exch # Nil => rl_log[exch.seq].forwarded)
    /\ [][RejectStep => UNCHANGED <<repo, exch>>]_vars
C6_Witness ==
    /\ Ticks = 0
    /\ Len(CallsOf("10.0.0.1")) = RequestsPerMinute + 1
    /\ Len(ForwardedOf("10.0.0.1")) = RequestsPerMinute
    /\ rl_log[Len(rl_log)] =
         [kind |-> "call", ip |-> "10.0.0.1", forwarded |-> FALSE, status |-> 429]
    /\ exch.seq < Len(rl_log)

\* C7: the decisions for the requests resolved to address b are those b
\* gets as the only client, whatever requests other addresses make in
\* between; a request resolved to another address leaves b's limiter as it
\* is.
C7_Isolation ==
    /\ [](\A b \in IpLiterals : Decisions(b) = Alone(rl_log, b, RequestsPerMinute))
    /\ [][\A b \in DOMAIN limiters :
            CallOfAnother(b) => limiters'[b] = limiters[b]]_vars
C7_Witness ==
    /\ Len(RejectedOf("10.0.0.1")) >= 1
    /\ Len(CallsOf("10.0.0.2")) = 1
    /\ rl_log[Len(rl_log)] =
         [kind |-> "call", ip |-> "10.0.0.2", forwarded |-> TRUE, status |-> 200]
    /\ limiters["10.0.0.1"] = 0
    /\ limiters["10.0.0.2"] = RequestsPerMinute - 1

(* ------------------------- what a connection shows -------------------- *)
Delivered == SelectSeq(ws_out, LAMBDA f : f.sent)
\* The step gives a frame to sender.send().
SendStep == Len(ws_out') = Len(ws_out) + 1
\* The step takes a text message from the connection.
TakeStep == ws_in' = ws_in + 1

\* C8: every text message taken from the connection gets exactly one frame
\* given to the sender, the k-th frame answers the k-th text message, the
\* frames that arrive keep that order, and a text message is taken only
\* when the answer to the one before has been given to the sender.
C8_StreamingOrder ==
    /\ [](/\ Len(ws_out) = ws_in - (IF ws_pc = "send" THEN 1 ELSE 0)
          /\ \A k \in 1..Len(ws_out) : ws_out[k].reply_to = k
          /\ \A i, j \in 1..Len(Delivered) :
                i < j => Delivered[i].reply_to < Delivered[j].reply_to
          /\ (ws_pc = "send") = (exch # Nil)
          /\ exch # Nil => exch.seq = ws_in)
    /\ [][TakeStep => Len(ws_out) = ws_in]_vars
    /\ [][SendStep => ws_out'[Len(ws_out')].reply_to = ws_in]_vars
C8_Witness ==
    /\ ws_in = 3
    /\ Len(ws_out) = 3
    /\ ws_out[1].code = 0 /\ ws_out[2].code = PARSE_ERROR
    /\ ws_out[3].code = INTERNAL_ERROR
    /\ \A k \in 1..3 : ws_out[k].sent /\ ws_out[k].reply_to = k

\* C9: a text message that does not parse is answered by one PARSE_ERROR
\* response with a null id, runs no workflow and no git or GitHub
\* operation, and leaves the loop receiving, whether or not the send
\* succeeds, so that the next text message is taken and answered.
C9_ParseError ==
    /\ []((exch # Nil /\ exch.request = Nil) =>
            /\ HasError /\ ~HasResult
            /\ Body.error.code = PARSE_ERROR
            /\ Body.id = JNull
            /\ ~exch.dispatched
            /\ exch.command = Nil
            /\ exch.trace = <<>>)
    /\ [][(ws_pc = "send" /\ exch.request = Nil) =>
            /\ SendStep
            /\ ws_out'[Len(ws_out')].code = PARSE_ERROR
            /\ ws_pc' = "recv"
            /\ repo' = repo]_vars
C9_Witness ==
    /\ Len(ws_out) = 2
    /\ ws_out[1].code = PARSE_ERROR /\ ~ws_out[1].sent
    /\ ws_out[2].code = 0 /\ ws_out[2].sent
    /\ ws_pc = "recv"

\* C10: the loop ends when a close frame is received and ends after any
\* failed send, whichever response was being sent, and once it has ended no
\* further text message is taken.
C10_Termination ==
    [][/\ (ws_last # "close" /\ ws_last' = "close") => ws_pc' = "closed"
       /\ (SendStep /\ ~ws_out'[Len(ws_out')].sent) => ws_pc' = "closed"
       /\ ws_pc = "closed" => (ws_in' = ws_in /\ ws_out' = ws_out)]_vars

(* ------------------------- what tools/call and resources/read show ---- *)
Dispatched(method) ==
    exch # Nil /\ exch.request # Nil /\ exch.request.method = method
KnownTools == {ToolNames[i] : i \in 1..Len(ToolNames)}
KnownUris == {ResourceUris[i] : i \in 1..Len(ResourceUris)}
\* The code of the error object of the response, 0 when it has none.
ErrorCode ==
    IF HasError /\ "code" \in DOMAIN Body.error THEN Body.error.code ELSE 0
\* The fields of a tool's arguments, by the type GitHubCommand gives them.
StringFields(tool) ==
    CASE tool = "github_push" -> {"branch", "message"}
      [] tool = "github_scan_tasks" -> {"project_number", "filter_type", "status"}
      [] tool = "github_merge" -> {"branch"}
BoolFields(tool) ==
    CASE tool = "github_push" -> {"ready_for_review"}
      [] tool = "github_scan_tasks" -> {}
      [] tool = "github_merge" -> {"delete_branch", "cleanup_work_folder"}
\* tools/call names a known tool and an argument has the wrong type.
MalformedCall ==
    /\ Dispatched(TOOLS_CALL)
    /\ exch.request.params # Nil
    /\ AsStr(exch.request.params.name) \in KnownTools
    /\ exch.request.params.arguments # Nil
    /\ LET tool == AsStr(exch.request.params.name)
           args == exch.request.params.arguments
       IN  \/ \E f \in StringFields(tool) : args[f].t \notin {"absent", "null", "str"}
           \/ \E f \in BoolFields(tool) : args[f].t \notin {"absent", "null", "bool"}

\* C11: tools/call whose name is a string other than the three tool names
\* is answered with METHOD_NOT_FOUND and the request's id, whatever
\* arguments is, and no workflow step runs.
C11_UnknownTool ==
    (/\ Dispatched(TOOLS_CALL)
     /\ exch.request.params # Nil
     /\ AsStr(exch.request.params.name) \notin KnownTools \cup {None}) =>
        /\ HasError /\ ~HasResult
        /\ ErrorCode = METHOD_NOT_FOUND
        /\ Body.id = EchoedId
        /\ exch.command = Nil
        /\ exch.trace = <<>>
C11_Witness ==
    /\ Dispatched(TOOLS_CALL)
    /\ exch.request.params # Nil
    /\ exch.request.params.name = JStr("github_deploy")
    /\ exch.request.params.arguments = [EmptyObject EXCEPT !["branch"] = JNum]
    /\ exch.text.id = JStr("abc")
    /\ ErrorCode = METHOD_NOT_FOUND
    /\ Body.id = JStr("abc")

\* C12: tools/call naming a known tool with an argument of the wrong type
\* is answered, on both transports, with an error response of code
\* INVALID_PARAMS and the request's id, and no workflow step runs.
C12_MalformedArguments ==
    MalformedCall =>
        /\ HasError /\ ~HasResult
        /\ ErrorCode = INVALID_PARAMS
        /\ "id" \in Body.keys
        /\ Body.id = EchoedId
        /\ exch.command = Nil
        /\ exch.trace = <<>>

\* C13: resources/read whose uri is a string other than the two resource
\* uris is answered with METHOD_NOT_FOUND and the request's id, and no
\* workflow query runs.
C13_UnknownResource ==
    (/\ Dispatched(RESOURCES_READ)
     /\ exch.request.params # Nil
     /\ AsStr(exch.request.params.uri) \notin KnownUris \cup {None}) =>
        /\ HasError /\ ~HasResult
        /\ ErrorCode = METHOD_NOT_FOUND
        /\ Body.id = EchoedId
        /\ exch.trace = <<>>
C13_Witness ==
    /\ Dispatched(RESOURCES_READ)
    /\ exch.request.params # Nil
    /\ exch.request.params.uri = JStr("github://projects/other")
    /\ exch.transport = "http"
    /\ exch.response.status = 200
    /\ ErrorCode = METHOD_NOT_FOUND
    /\ Body.id = EchoedId

(* ------------------------- what a workflow command shows -------------- *)
\* TODO.md gives no project number: it cannot be read, or none of its
\* marker lines has a word of digits.
NoMarkerNumber(todo) ==
    \/ ~todo.readable
    \/ \A i \in 1..Len(todo.lines) :
          \/ todo.lines[i].marker = ""
          \/ \A k \in 1..Len(todo.lines[i].words) :
                todo.lines[i].words[k] \notin AsciiDigitWords

\* C14: ScanTasks without a project_number argument, with no number on a
\* marker line of TODO.md and without GITHUB_PROJECT_NUMBER ends in the
\* validation error, and neither the GitHub client nor get-project-items
\* is called.
C14_NoProjectNumber ==
    (/\ Ran("ScanTasks")
     /\ exch.command.a = None
     /\ NoMarkerNumber(repo.todo)
     /\ repo.env_project = None) =>
        /\ HasError /\ ~HasResult
        /\ Body.error.message =
             "Validation error: No GitHub Project number found. Please specify project_number or add it to TODO.md"
        /\ Ops \cap GitHubCalls = {}
C14_Witness ==
    /\ Ran("ScanTasks")
    /\ exch.command.a = None
    /\ repo.todo.readable /\ NoMarkerNumber(repo.todo)
    /\ repo.env_project = None
    /\ exch.transport = "http"
    /\ exch.response.status = 400
    /\ Ops = {"read_to_string", "env_var"}

\* The invocations of the operations in ops, in order.
Steps(ops) == SelectSeq(exch.trace, LAMBDA e : e.op \in ops)
StepNames(ops) == [i \in 1..Len(Steps(ops)) |-> Steps(ops)[i].op]
\* How the first call of op ended, "<not run>" when there was none.
Outcome(op) == IF op \in Ops THEN RetOf(op) ELSE "<not run>"
\* Every git process and GitHub call of the command does its work.
NothingFails == exch.env.fail = "none"

\* C15: a Push on a branch b other than the main branch with a commit
\* message, where the commit succeeds and leaves the tree clean and the push
\* succeeds, returns status success, branch b and the suggestion to open a
\* pull request, having invoked commit, then status, then push, once each.
C15_PushSuccess ==
    (/\ Ran("Push")
     /\ ResolvedBranch # ResolvedMain
     /\ exch.command.b # None
     /\ exch.before.dirty
     /\ NothingFails /\ ~exch.env.residual) =>
        /\ HasResult /\ ~HasError
        /\ Body.result.status = "success"
        /\ Body.result.branch = ResolvedBranch
        /\ Body.result.suggestion = "Consider creating a pull request for this branch"
        /\ StepNames(GitMutations \cup {"get_git_status"}) =
             <<"commit_changes", "get_git_status", "push_branch">>
        /\ Steps({"commit_changes"})[1].arg = exch.command.b
        /\ Steps({"push_branch"})[1].arg = ResolvedBranch
        /\ Outcome("commit_changes") = "ok" /\ Outcome("push_branch") = "ok"
C15_Witness ==
    /\ Ran("Push")
    /\ exch.command.a = None /\ exch.before.checked_out = "feature/x"
    /\ ResolvedMain = "main"
    /\ exch.command.b = "fix bug"
    /\ HasResult /\ Body.result.status = "success"
    /\ Body.result.branch = "feature/x"
    /\ Body.result.suggestion = "Consider creating a pull request for this branch"
    /\ Outcome("push_branch") = "ok"
    /\ ~repo.dirty

\* C16: a Merge on a branch other than the main branch that has an open
\* pull request n, with every git step succeeding and delete_branch absent,
\* returns a success payload with merged_pr.number = n, current_branch the
\* main branch and branch_deleted true.
C16_MergeSuccess ==
    (/\ Ran("Merge")
     /\ ResolvedBranch # ResolvedMain
     /\ repo.pull_request # None
     /\ exch.command.b = None
     /\ NothingFails) =>
        /\ HasResult /\ ~HasError
        /\ Body.result.status = "success"
        /\ Body.result.merged_pr.number = repo.pull_request
        /\ Body.result.current_branch = ResolvedMain
        /\ Body.result.branch_deleted = "true"

\* The error of the response is the authentication failure.
AuthenticationFailed ==
    /\ HasError
    /\ Body.error.message \in
         {"Authentication error: GitHub client not available",
          "Authentication error: No GitHub token available"}

\* C17: when a workflow command returns the authentication error, no
\* commit, push, checkout, pull or branch delete has been invoked in it.
C17_AuthBeforeMutation ==
    (exch # Nil /\ exch.command # Nil /\ AuthenticationFailed) =>
        Ops \cap GitMutations = {}

\* error_codes
ErrorCodes ==
    {PARSE_ERROR, INVALID_REQUEST, METHOD_NOT_FOUND, INVALID_PARAMS,
     INTERNAL_ERROR, GITHUB_API_ERROR, AUTHENTICATION_ERROR, RATE_LIMIT_ERROR,
     WORKFLOW_ERROR}

\* C18: a request that is not answered with a result is answered, on both
\* transports, with an error object that has a code of the registry and a
\* message.
C18_ErrorHasCode ==
    (exch # Nil /\ exch.request # Nil /\ ~HasResult) =>
        /\ HasError
        /\ "code" \in DOMAIN Body.error
        /\ Body.error.code \in ErrorCodes
        /\ "message" \in DOMAIN Body.error
        /\ Body.error.message # ""

\* C19: in a Push on a branch other than the main branch, a status check
\* that finds changes ends the command with status error and the list of
\* changes, and push is not invoked; push is invoked only right after a
\* status check that found none.
C19_PushDirtyAbort ==
    (Ran("Push") /\ ResolvedBranch # ResolvedMain) =>
        /\ Outcome("get_git_status") = "dirty" =>
              /\ HasResult /\ ~HasError
              /\ Body.result.status = "error"
              /\ Body.result.uncommitted_changes # <<>>
              /\ "push_branch" \notin Ops
        /\ \A i \in 1..Len(exch.trace) :
              exch.trace[i].op = "push_branch" =>
                 /\ i > 1
                 /\ exch.trace[i - 1].op = "get_git_status"
                 /\ exch.trace[i - 1].ret = "clean"
C19_Witness ==
    /\ Ran("Push") /\ ResolvedBranch # ResolvedMain
    /\ exch.command.b # None
    /\ Outcome("commit_changes") = "ok"
    /\ exch.env.residual
    /\ Outcome("get_git_status") = "dirty"
    /\ Body.result.status = "error"
    /\ repo.dirty

\* The operations that abort a command when they fail.
Aborting == {"get_git_status", "commit_changes", "push_branch",
             "checkout_branch", "pull_branch"}

\* C20: within one workflow command each of status, commit, push, checkout
\* and pull is invoked at most once, and when one of them fails it is the
\* last operation of the command, which returns an error.
C20_AbortOnFirstFailure ==
    (exch # Nil /\ exch.command # Nil) =>
        /\ \A op \in Aborting : Len(Steps({op})) <= 1
        /\ \A i \in 1..Len(exch.trace) :
              (exch.trace[i].op \in Aborting /\ exch.trace[i].ret = Failed) =>
                 /\ i = Len(exch.trace)
                 /\ HasError /\ ~HasResult
C20_Witness ==
    /\ Ran("Merge")
    /\ StepNames(Aborting) = <<"get_git_status", "commit_changes", "push_branch">>
    /\ Outcome("commit_changes") = "ok"
    /\ Outcome("push_branch") = Failed
    /\ exch.trace[Len(exch.trace)].op = "push_branch"
    /\ HasError

\* A lookup of the pull request returned one.
PrLocated ==
    \E i \in 1..Len(exch.trace) :
        exch.trace[i].op = "get_pr_for_branch" /\ exch.trace[i].ret # Failed
AfterLocate == {"checkout_branch", "pull_branch", "delete_local_branch"}

\* C21: a Merge on a branch other than the main branch in which no pull
\* request is located ends in an error and invokes neither checkout, pull
\* nor branch delete; a Push that has pushed and locates no pull request
\* still returns status success.
C21_MergeRequiresPr ==
    /\ (Ran("Merge") /\ ResolvedBranch # ResolvedMain /\ ~PrLocated) =>
          /\ HasError /\ ~HasResult
          /\ Ops \cap AfterLocate = {}
    /\ (/\ Ran("Push") /\ ResolvedBranch # ResolvedMain
        /\ Outcome("push_branch") = "ok" /\ ~PrLocated) =>
          /\ HasResult /\ ~HasError
          /\ Body.result.status = "success"
C21_Witness ==
    /\ Ran("Merge") /\ ResolvedBranch # ResolvedMain
    /\ repo.pull_request = None
    /\ Outcome("push_branch") = "ok"
    /\ exch.trace[Len(exch.trace)].op \in GitHubCalls
    /\ exch.trace[Len(exch.trace)].ret = Failed
    /\ HasError
    /\ repo.checked_out = exch.before.checked_out

\* C25: a Push or Merge without a branch argument in which get-current-branch
\* fails is answered with an error and invokes no commit, push, checkout,
\* pull or branch delete.
C25_NoSilentDefault ==
    (/\ Ran("Push") \/ Ran("Merge")
     /\ exch.command.a = None
     /\ Outcome("get_current_branch") = Failed) =>
        /\ HasError /\ ~HasResult
        /\ Ops \cap GitMutations = {}

\* In a command of the given kind a commit or a push succeeded and a later
\* one of the operations in ops failed.
LaterFailure(tag, ops) ==
    /\ Ran(tag)
    /\ \E i \in 1..Len(exch.trace) : \E j \in (i + 1)..Len(exch.trace) :
          /\ exch.trace[i].op \in {"commit_changes", "push_branch"}
          /\ exch.trace[i].ret = "ok"
          /\ exch.trace[j].op \in ops
          /\ exch.trace[j].ret = Failed

\* C26: when a step of Push (status, push) or of Merge (push, credential
\* lookup, pull request lookup) fails after a commit or push of the same
\* command succeeded, the command answers with an error, the failed step is
\* the last operation it invokes, and the tree stays as the commit left it,
\* on the branch the command started on.
C26_NoRollback ==
    (\/ LaterFailure("Push", {"get_git_status", "push_branch"})
     \/ LaterFailure("Merge", {"push_branch", "get_github_client",
                               "get_pr_for_branch"})) =>
        /\ HasError /\ ~HasResult
        /\ \A j \in 1..Len(exch.trace) :
              (/\ exch.trace[j].op \in Aborting \cup GitHubCalls
               /\ exch.trace[j].ret = Failed) => j = Len(exch.trace)
        /\ Ops \subseteq {"get_current_branch", "get_main_branch", "get_git_status",
                          "commit_changes", "push_branch", "get_github_client",
                          "get_pr_for_branch"}
        /\ Outcome("commit_changes") = "ok" =>
              /\ exch.before.dirty
              /\ repo.dirty = exch.env.residual
        /\ repo.checked_out = exch.before.checked_out
C26_Witness ==
    /\ Ran("Merge")
    /\ exch.before.dirty
    /\ Outcome("commit_changes") = "ok"
    /\ Outcome("push_branch") = "ok"
    /\ Outcome("get_github_client") = Failed
    /\ HasError
    /\ ~repo.dirty

(* ------------------------- what a resolution shows -------------------- *)
\* The lines of TODO.md that have a marker and a word of digits, and the
\* number the document gives: the first word of digits of the first such
\* line, None when there is no such line or no document.
NumberedMarkerLines(todo) ==
    {i \in 1..Len(todo.lines) :
        /\ todo.lines[i].marker # ""
        /\ \E k \in 1..Len(todo.lines[i].words) :
              todo.lines[i].words[k] \in AsciiDigitWords}
FirstDigits(words) ==
    words[CHOOSE k \in 1..Len(words) :
            /\ words[k] \in AsciiDigitWords
            /\ \A m \in 1..(k - 1) : words[m] \notin AsciiDigitWords]
DocumentNumber(todo) ==
    IF ~todo.readable \/ NumberedMarkerLines(todo) = {} THEN None
    ELSE FirstDigits(todo.lines[CHOOSE i \in NumberedMarkerLines(todo) :
                                  \A j \in NumberedMarkerLines(todo) : i <= j].words)
Consulted == [i \in 1..Len(applied.output.c.trace) |-> applied.output.c.trace[i].op]

\* C29: the project number is the argument when one is given, and then
\* neither TODO.md nor the environment is read; else the first word of
\* digits of the first marker line of TODO.md that has one, and then the
\* environment is not read; else GITHUB_PROJECT_NUMBER.
C29_ProjectPrecedence ==
    (applied # Nil /\ applied.fn = "project_num") =>
        /\ applied.input.project_number # None =>
              /\ applied.output.r = Ok(applied.input.project_number)
              /\ Consulted = <<>>
        /\ (/\ applied.input.project_number = None
            /\ DocumentNumber(applied.input.todo) # None) =>
              /\ applied.output.r = Ok(DocumentNumber(applied.input.todo))
              /\ Consulted = <<"read_to_string">>
        /\ (/\ applied.input.project_number = None
            /\ DocumentNumber(applied.input.todo) = None
            /\ applied.input.env_project # None) =>
              /\ applied.output.r = Ok(applied.input.env_project)
              /\ Consulted = <<"read_to_string", "env_var">>
C29_Witness ==
    /\ applied # Nil /\ applied.fn = "project_num"
    /\ applied.input.project_number = None
    /\ applied.input.todo.readable
    /\ Len(applied.input.todo.lines) = 2
    /\ applied.input.todo.lines[1].words = <<"Project", "Number:">>
    /\ applied.input.todo.lines[2].words = <<"GitHub", "Project:", "#3", "12", "0">>
    /\ applied.input.env_project = "7"
    /\ applied.output.r = Ok("12")

\* The address a header value is, None when it is none; the first entry of
\* a forwarded-for header is taken without the blanks around it.
ForwardedAddress(headers) ==
    IF headers.xff = None THEN None ELSE ParseIp(Trim(headers.xff[1]))
RealAddress(headers) ==
    IF headers.real_ip = None THEN None ELSE ParseIp(headers.real_ip)

\* C30: the address that selects the bucket is the first entry of the
\* forwarded-for header when it is an address; else the real-IP header when
\* it is one, whether or not a forwarded-for header is present; else
\* 127.0.0.1.
C30_AddressPrecedence ==
    (applied # Nil /\ applied.fn = "client_ip") =>
        /\ ForwardedAddress(applied.input) # None =>
              applied.output.client_ip = ForwardedAddress(applied.input)
        /\ (/\ ForwardedAddress(applied.input) = None
            /\ RealAddress(applied.input) # None) =>
              applied.output.client_ip = RealAddress(applied.input)
        /\ (/\ ForwardedAddress(applied.input) = None
            /\ RealAddress(applied.input) = None) =>
              applied.output.client_ip = "127.0.0.1"
        /\ DOMAIN applied.output.limiters = {applied.output.client_ip}
C30_Witness ==
    /\ applied # Nil /\ applied.fn = "client_ip"
    /\ applied.input.xff = <<"unknown", "10.0.0.1">>
    /\ applied.input.real_ip = "10.0.0.2"
    /\ applied.output.client_ip = "10.0.0.2"
    /\ DOMAIN applied.output.limiters = {"10.0.0.2"}

(* ------------------------- what the path behind the lookup shows ----- *)
Located == applied # Nil /\ applied.fn = "merge_located"
LocatedTrace == applied.output.c.trace
LocatedRet(op) ==
    IF \E i \in 1..Len(LocatedTrace) : LocatedTrace[i].op = op
      THEN LocatedTrace[CHOOSE i \in 1..Len(LocatedTrace) : LocatedTrace[i].op = op].ret
    ELSE "<not run>"
LocatedSucceeded ==
    /\ Located
    /\ applied.output.r.ok
    /\ applied.output.r.v.status = "success"

MergeSteps ==
    SelectSeq(exch.trace,
              LAMBDA e : e.op \notin {"get_current_branch", "get_main_branch"})
MergeStepNames == [i \in 1..Len(MergeSteps) |-> MergeSteps[i].op]
DeleteRequested == exch.command.b \in {None, "true"}
\* The order of a whole Merge on a tree whose status is as given.
MergeOrder(dirty, deleting) ==
    <<"get_git_status">>
    \o (IF dirty THEN <<"commit_changes">> ELSE <<>>)
    \o <<"push_branch", "get_github_client", "get_pr_for_branch",
         "checkout_branch", "pull_branch">>
    \o (IF deleting THEN <<"delete_local_branch">> ELSE <<>>)
IsPrefix(a, b) == Len(a) <= Len(b) /\ \A i \in 1..Len(a) : a[i] = b[i]
ArgOf(op) ==
    CASE op = "commit_changes" -> Msg("Final changes for ", ResolvedBranch)
      [] op \in {"push_branch", "get_pr_for_branch", "delete_local_branch"} ->
           ResolvedBranch
      [] op \in {"checkout_branch", "pull_branch"} -> ResolvedMain
      [] OTHER -> ""

\* C23: in a Merge on a branch b other than the main branch the operations
\* are, in this order and as far as the command gets: status; commit with
\* the message "Final changes for b", exactly when the status listed
\* changes; push of b; the lookup of the pull request; checkout of the main
\* branch; pull of the main branch; delete of b when requested.  A result
\* comes after all of them and names the main branch as current.
C23_MergeOrder ==
    (Ran("Merge") /\ ResolvedBranch # ResolvedMain) =>
        /\ IsPrefix(MergeStepNames,
                    MergeOrder(Outcome("get_git_status") = "dirty", DeleteRequested))
        /\ \A i \in 1..Len(MergeSteps) :
              MergeSteps[i].op \notin {"get_git_status", "get_github_client"} =>
                 MergeSteps[i].arg = ArgOf(MergeSteps[i].op)
        /\ HasResult =>
              /\ MergeStepNames =
                   MergeOrder(Outcome("get_git_status") = "dirty", DeleteRequested)
              /\ Body.result.current_branch = ResolvedMain
              /\ repo.checked_out = ResolvedMain
C23_Witness ==
    /\ Ran("Merge")
    /\ exch.command.a = None /\ exch.before.checked_out = "feature/x"
    /\ exch.before.dirty
    /\ ResolvedMain = "trunk"
    /\ MergeStepNames =
         <<"get_git_status", "commit_changes", "push_branch", "get_github_client">>
    /\ MergeSteps[2].arg = Msg("Final changes for ", "feature/x")
    /\ MergeSteps[2].ret = "ok"
    /\ MergeSteps[3].arg = "feature/x"
    /\ MergeSteps[3].ret = "ok"

(* ------------------------- what concurrent calls of the limiter show -- *)
Forwarded(a) == {i \in Requests : reqs[i].ip = a /\ reqs[i].forwarded}
\* C28: under concurrent requests every address has one bucket: one
\* limiter is ever created for it, every request of the address holds the
\* one the map holds, and no more requests of the address are let through
\* than that bucket has cells; the map never loses or replaces an entry and
\* no bucket is refilled by a request.
C28_OneBucketPerAddress ==
    /\ [](/\ \A m, n \in 1..Len(arcs) : arcs[m].ip = arcs[n].ip => m = n
          /\ \A i \in Requests :
                reqs[i].limiter # 0 =>
                   /\ reqs[i].ip \in DOMAIN arc_map
                   /\ arc_map[reqs[i].ip] = reqs[i].limiter
                   /\ arcs[reqs[i].limiter].ip = reqs[i].ip
          /\ \A m \in 1..Len(arcs) :
                arcs[m].cells + Cardinality(Forwarded(arcs[m].ip))
                   = RequestsPerMinute)
    /\ [][/\ \A a \in DOMAIN arc_map :
                a \in DOMAIN arc_map' /\ arc_map'[a] = arc_map[a]
          /\ \A m \in 1..Len(arcs) :
                /\ m <= Len(arcs')
                /\ arcs'[m].ip = arcs[m].ip
                /\ arcs'[m].cells <= arcs[m].cells]_vars
C28_Witness ==
    /\ \A i \in Requests : reqs[i].pc = "done" /\ reqs[i].ip = "10.0.0.1"
    /\ Len(arcs) = 1
    /\ Cardinality(Forwarded("10.0.0.1")) = RequestsPerMinute
    /\ \E i \in Requests : ~reqs[i].forwarded
    /\ DOMAIN arc_map = {"10.0.0.1"}

EndsWith(s, suffix) ==
    /\ Len(s) >= Len(suffix)
    /\ SubSeq(s, Len(s) - Len(suffix) + 1, Len(s)) = suffix
\* The adapter operations of C31 and the process of each that exits non-zero.
ExitNonZero(op) ==
    CASE op = "get_current_branch" -> {"current_branch"}
      [] op = "get_git_status" -> {"status"}
      [] op = "commit_changes" -> {"add", "commit"}
      [] op = "push_branch" -> {"push"}
      [] op = "pull_branch" -> {"pull"}
      [] op = "checkout_branch" -> {"checkout"}
      [] OTHER -> {}
\* C31: an adapter operation whose git process exits non-zero returns an
\* error, and the error that ends the request carries the text the process
\* wrote to standard error.
C31_GitErrorCarriesStderr ==
    (exch # Nil /\ exch.trace # <<>>) =>
        /\ \A i \in 1..Len(exch.trace) :
              exch.env.fail \in ExitNonZero(exch.trace[i].op) =>
                 exch.trace[i].ret = Failed
        /\ (/\ exch.env.fail \in ExitNonZero(exch.trace[Len(exch.trace)].op)
            /\ HasError) =>
              EndsWith(Body.error.message, "stderr")

(* ------------------------- what a resources/read shows ---------------- *)
ReadResource ==
    /\ exch # Nil
    /\ exch.request # Nil
    /\ exch.request.method = RESOURCES_READ
Queries == {"get_current_branch", "get_git_status", "get_github_client",
            "get_pr_for_branch", "get_project_items", "read_to_string", "env_var"}
\* C32: a resources/read invokes query operations only, none of commit,
\* push, checkout, pull and delete, and leaves the working tree and the
\* checked-out branch as they were.
C32_ReadOnlyResources ==
    /\ [](ReadResource =>
             /\ Ops \subseteq Queries
             /\ Ops \cap GitMutations = {}
             /\ repo.dirty = exch.before.dirty
             /\ repo.checked_out = exch.before.checked_out)
    /\ [][(/\ exch = Nil
           /\ exch' # Nil
           /\ exch'.request # Nil
           /\ exch'.request.method = RESOURCES_READ) => repo' = repo]_vars
C32_Witness ==
    /\ ReadResource
    /\ HasResult
    /\ exch.request.params # Nil
    /\ AsStr(exch.request.params.uri) = "github://workflow/status"
    /\ Ops = {"get_current_branch", "get_git_status", "get_github_client"}
    /\ Outcome("get_git_status") = "dirty"
    /\ repo.dirty
    /\ repo.checked_out = "feature/x"

(* ------------------------- the guard and a branch argument ------------ *)
\* The main-branch guard let the command through: something ran after the
\* two branch names were resolved.
GuardPassed == Ops \ {"get_current_branch", "get_main_branch"} # {}
\* C33: a Push or Merge with a branch argument never asks git for the
\* checked-out branch; the guard lets it through exactly when the argument
\* differs from the main branch, whatever is checked out; so a Push with a
\* message and a non-main branch argument commits even on main.
C33_GuardUsesArgument ==
    ((Ran("Push") \/ Ran("Merge")) /\ exch.command.a # None) =>
        /\ "get_current_branch" \notin Ops
        /\ ResolvedBranch = exch.command.a
        /\ GuardPassed <=> exch.command.a # ResolvedMain
        /\ (Ran("Push") /\ exch.command.b # None /\ exch.command.a # ResolvedMain) =>
              /\ exch.trace[2].op = "commit_changes"
              /\ exch.trace[2].arg = exch.command.b
C33_Witness ==
    /\ Ran("Push")
    /\ exch.command.a = "feature/x"
    /\ exch.command.b = "fix bug"
    /\ exch.before.checked_out = "main"
    /\ ResolvedMain = "main"
    /\ exch.before.dirty
    /\ Outcome("commit_changes") = "ok"
    /\ Outcome("push_branch") = "ok"
    /\ HasResult
    /\ Body.result.status = "success"
    /\ Body.result.branch = "feature/x"

(* ------------------------- what the missing client means -------------- *)
\* The project number of a ScanTasks is there: given, or detected.
ProjectResolved == exch.command.a # None \/ Outcome("env_var") # Failed
\* C34: checkout, pull and delete are never invoked and no pull request is
\* ever found: the client is always asked for without a user and never
\* obtained; a Merge whose push succeeds ends with the authentication error
\* right after the push, and so does a ScanTasks whose project number is
\* resolved.
C34_ClientNeverObtained ==
    exch # Nil =>
        /\ Ops \cap {"checkout_branch", "pull_branch", "delete_local_branch",
                     "get_pr_for_branch", "get_project_items"} = {}
        /\ \A i \in 1..Len(exch.trace) :
              exch.trace[i].op = "get_github_client" =>
                 /\ exch.trace[i].arg = None
                 /\ exch.trace[i].ret = Failed
        /\ (Ran("Merge") /\ Outcome("push_branch") = "ok") =>
              /\ AuthenticationFailed
              /\ ~HasResult
              /\ exch.trace[Len(exch.trace)].op = "get_github_client"
              /\ exch.trace[Len(exch.trace) - 1].op = "push_branch"
        /\ (Ran("ScanTasks") /\ ProjectResolved) =>
              /\ AuthenticationFailed
              /\ ~HasResult
              /\ exch.trace[Len(exch.trace)].op = "get_github_client"
C34_Witness ==
    /\ Ran("Merge")
    /\ exch.before.dirty
    /\ Outcome("commit_changes") = "ok"
    /\ Outcome("push_branch") = "ok"
    /\ Outcome("get_github_client") = Failed
    /\ AuthenticationFailed
    /\ exch.transport = "http"
    /\ exch.response.status = 401
    /\ ~repo.dirty

(* ------------------------- what a tool call and its alias show ------- *)
BothAsked == applied # Nil /\ applied.fn = "tools_call_and_alias"
Argument(i) == applied.input.arguments[ToolFields[applied.input.tool][i]]
WellTyped(i) ==
    Argument(i).t \in {"absent", "null", DeclaredType(ToolFields[applied.input.tool][i])}
\* The field of the command for argument i when a wrong type counts as absent.
FieldOf(i) ==
    IF Argument(i).t = DeclaredType(ToolFields[applied.input.tool][i])
      THEN Argument(i).v ELSE None
CommandOfArguments ==
    [tag |-> CASE applied.input.tool = 1 -> "Push"
               [] applied.input.tool = 2 -> "ScanTasks"
               [] OTHER -> "Merge",
     a |-> FieldOf(1), b |-> FieldOf(2), c |-> FieldOf(3)]
\* C35: with arguments of the declared types tools/call and the direct
\* method build the same command, invoke the same operations and answer the
\* same; with a field of another type the direct method takes the field as
\* absent and runs, and tools/call fails without a command.
C35_AliasAgrees ==
    BothAsked =>
        /\ applied.output.alias.cmd = CommandOfArguments
        /\ (\A i \in 1..3 : WellTyped(i)) =>
              /\ applied.output.call.cmd = applied.output.alias.cmd
              /\ applied.output.call.trace = applied.output.alias.trace
              /\ applied.output.call.response = applied.output.alias.response
        /\ (\E i \in 1..3 : ~WellTyped(i)) =>
              /\ applied.output.call.cmd = Nil
              /\ applied.output.call.trace = <<>>
              /\ applied.output.call.response.status = 400
              /\ applied.output.call.response.body.error.label = "Invalid JSON"
              /\ applied.output.alias.response # applied.output.call.response
C35_Witness ==
    /\ BothAsked
    /\ applied.input.tool = 3
    /\ applied.input.arguments["branch"] = JStr("feature/x")
    /\ applied.input.arguments["delete_branch"] = JBool(TRUE)
    /\ applied.input.arguments["cleanup_work_folder"] = JNull
    /\ applied.output.call.cmd =
         [tag |-> "Merge", a |-> "feature/x", b |-> "true", c |-> None]
    /\ applied.output.alias.cmd = applied.output.call.cmd
    /\ applied.output.call.response = applied.output.alias.response
    /\ applied.output.call.response.status = 401
    /\ Len(applied.output.call.trace) > 2

(* ------------------------- a Push that stops without an Err ----------- *)
PushRefusedOnMain == Ran("Push") /\ ResolvedBranch = ResolvedMain
PushStoppedDirty ==
    /\ Ran("Push")
    /\ ResolvedBranch # ResolvedMain
    /\ exch.trace[Len(exch.trace)].op = "get_git_status"
    /\ exch.trace[Len(exch.trace)].ret = "dirty"
\* C36: a Push refused on the main branch and a Push that stops on a dirty
\* tree are answered with a result and no error: the payload's status is
\* warning for the first and error for the second, and no error code is
\* given.
C36_StopIsAResult ==
    /\ PushRefusedOnMain =>
          /\ HasResult /\ ~HasError
          /\ Body.error = Nil
          /\ Body.result.status = "warning"
          /\ exch.transport = "http" => exch.response.status = 200
    /\ PushStoppedDirty =>
          /\ HasResult /\ ~HasError
          /\ Body.error = Nil
          /\ Body.result.status = "error"
          /\ exch.transport = "http" => exch.response.status = 200
C36_Witness ==
    /\ PushStoppedDirty
    /\ exch.request.method = TOOLS_CALL
    /\ exch.transport = "ws"
    /\ exch.command.b = "fix bug"
    /\ Outcome("commit_changes") = "ok"
    /\ HasResult
    /\ Body.result.status = "error"
    /\ Body.result.uncommitted_changes # <<>>

\* C37: on the streaming transport a cell is taken only by the upgrade
\* request: every limiter holds its burst less the requests the layer let
\* through for its address, frames are read only on a connection whose
\* upgrade was let through, and a step that reads a text message hands it to
\* the dispatcher and leaves the limiters and their log as they were.
Admitted(a) ==
    Len(SelectSeq(rl_log, LAMBDA e : e.kind = "call" /\ e.forwarded /\ e.ip = a))
UpgradesAdmitted ==
    Len(SelectSeq(rl_log, LAMBDA e : e.kind = "call" /\ e.forwarded
                                       /\ e.status = 101))
C37_MessagesBypassGate ==
    /\ [](/\ \A a \in DOMAIN limiters :
                limiters[a] = RequestsPerMinute - Admitted(a)
          /\ ws_in > 0 => UpgradesAdmitted = 1)
    /\ [][ws_in' # ws_in =>
            /\ limiters' = limiters
            /\ rl_log' = rl_log
            /\ exch'.transport = "ws"
            /\ exch'.seq = ws_in']_vars
\* A message dispatched on the connection after its caller's bucket ran out
\* and a POST of the same caller was refused.
C37_Witness ==
    /\ ws_pc = "send"
    /\ exch # Nil
    /\ exch.transport = "ws"
    /\ exch.dispatched
    /\ ws_in >= 2
    /\ \E i, j \in DOMAIN rl_log :
         /\ rl_log[i].status = 101
         /\ rl_log[i].forwarded
         /\ limiters[rl_log[i].ip] = 0
         /\ rl_log[j].ip = rl_log[i].ip
         /\ ~rl_log[j].forwarded

(* ------------------------- what is listed and what is dispatched ------ *)
Listed(list) == {list[i] : i \in DOMAIN list}
\* The names and uris the two list handlers give on the tree as it is now.
ListedTools == Listed(handle_tools_list(repo, exch.request).r.v.result.tools)
ListedUris ==
    Listed(handle_resources_list(repo, exch.request).r.v.result.resources)
NotFound == ErrorCode = METHOD_NOT_FOUND
\* C38: whatever was requested before, tools/list answers the same three
\* names and resources/list the same two uris; a tools/call that names a
\* listed tool is never answered METHOD_NOT_FOUND, and a resources/read of a
\* listed uri is never answered METHOD_NOT_FOUND and a result carries that uri.
C38_ListingAgrees ==
    (exch # Nil /\ exch.request # Nil) =>
        /\ exch.request.method = TOOLS_LIST =>
             /\ HasResult
             /\ Body.result.tools
                  = <<"github_push", "github_scan_tasks", "github_merge">>
        /\ exch.request.method = RESOURCES_LIST =>
             /\ HasResult
             /\ Body.result.resources
                  = <<"github://workflow/status", "github://projects/tasks">>
        /\ (/\ exch.request.method = TOOLS_CALL
            /\ exch.request.params # Nil
            /\ AsStr(exch.request.params.name) \in ListedTools) => ~NotFound
        /\ (/\ exch.request.method = RESOURCES_READ
            /\ exch.request.params # Nil
            /\ AsStr(exch.request.params.uri) \in ListedUris) =>
             /\ ~NotFound
             /\ HasResult =>
                  Body.result.contents.uri = AsStr(exch.request.params.uri)
\* A tools/call of the last listed tool, which became a Merge command.
C38_Witness ==
    /\ exch # Nil
    /\ exch.request # Nil
    /\ exch.request.method = TOOLS_CALL
    /\ exch.request.params # Nil
    /\ AsStr(exch.request.params.name) = "github_merge"
    /\ AsStr(exch.request.params.name) \in ListedTools
    /\ Ran("Merge")
    /\ ~NotFound

(* ------------------------- the main branch and its default ------------ *)
MainFailures == {"spawn_failed", "exit_nonzero", "no_head_line"}
AskedMain == exch # Nil /\ exch.command # Nil /\ "get_main_branch" \in Ops
\* C39 as stated: get-main-branch never ends in an error; on each of the
\* three failures it returns "main", and otherwise the trimmed name.
C39_NeverPropagates ==
    AskedMain =>
        /\ RetOf("get_main_branch") # Failed
        /\ repo.remote_head \in MainFailures => RetOf("get_main_branch") = "main"
        /\ repo.remote_head \notin MainFailures =>
             RetOf("get_main_branch") = TrimName(repo.remote_head)
\* C39: get-main-branch returns "main" when git exits non-zero or prints no
\* HEAD-branch line and the trimmed name otherwise, and ends in an error
\* exactly when git cannot be run; Push and Merge put "main" in the place of
\* that error, so on each of the three failures the guard stops the command
\* exactly when its branch is "main".
C39_DefaultAtCaller ==
    AskedMain =>
        /\ RetOf("get_main_branch") = Failed <=> repo.remote_head = "spawn_failed"
        /\ repo.remote_head \in {"exit_nonzero", "no_head_line"} =>
             RetOf("get_main_branch") = "main"
        /\ repo.remote_head \notin MainFailures =>
             RetOf("get_main_branch") = TrimName(repo.remote_head)
        /\ repo.remote_head \in MainFailures =>
             (GuardPassed <=> ResolvedBranch # "main")
\* git cannot be run for the remote, the checked-out branch is main, and the
\* Push is stopped by the guard with a warning.
C39_Witness ==
    /\ Ran("Push")
    /\ AskedMain
    /\ repo.remote_head = "spawn_failed"
    /\ RetOf("get_main_branch") = Failed
    /\ exch.command.a = None
    /\ exch.before.checked_out = "main"
    /\ ~GuardPassed
    /\ HasResult
    /\ Body.result.status = "warning"

====
